---- MODULE Spec2Model ----
(***************************************************************************)
(* A model of goexpress-redis: the session stores (in-process, networked,   *)
(* cookie-embedded), the session middleware, and the response-cache         *)
(* middleware over the networked cache store.                               *)
(*                                                                          *)
(* Time is a discrete clock `now`; durations are counted in its ticks.      *)
(* Go pointers to Session are references into `heap`, so that the aliasing *)
(* between a handler's handle and the in-process table is kept.             *)
(***************************************************************************)
EXTENDS Integers, Sequences, FiniteSets, TLC

(***************************************************************************)
(* Bounds of the model.                                                     *)
(***************************************************************************)
MaxTime == 2
MaxFaults == 1
MaxIds == 1
MaxAge24h == 2

(***************************************************************************)
(* Values of the program.                                                   *)
(***************************************************************************)
Nil == "nil"
ErrSessionNotFound == "session not found"
ErrSessionExpired == "session expired"
ErrBackend == "backend error"
ErrDecode == "decode error"
ErrHandler == "handler error"
ErrCacheMiss == "cache miss"

NoRef == 0
NoId == 0

Backends == {"memory", "redis", "cookie"}

\* Session data: a map from string keys to interface{} values. A value keeps
\* its Go dynamic type, which a JSON round trip does not preserve.
DataKeys == {"k"}
GoString == [t |-> "string", v |-> 1]
GoInt == [t |-> "int", v |-> 1]
DataVals == {GoString, GoInt}
EmptyData == << >>

\* A string handed to Store.Get: the empty string, a session id token
\* (base64url of 32 random bytes), the output of CookieStore.Encode, or
\* any other text.
EmptyStr == [kind |-> "empty", id |-> NoId]
GarbageStr == [kind |-> "garbage", id |-> NoId]
IdStr(id) == [kind |-> "id", id |-> id]
EncStr(bytes) == [kind |-> "enc", id |-> NoId, bytes |-> bytes]

VARIABLES
    backend,    \* which Store variant was constructed
    contextKey, \* Config.ContextKey
    maxAge,     \* Config.MaxAge
    now,        \* time.Now()
    heap,       \* the *Session objects, by reference
    mem,        \* MemoryStore.sessions: id -> reference
    rds,        \* the session keys of the Redis server: id -> [val, exp]
    nextId,     \* the number of session ids generated so far
    faults,     \* the number of backend failures injected so far
    lastOp,     \* store client: the last Store call and its result
    pending,    \* store client: the session last saved, no call on its id since
    rq,         \* session middleware: the state of each request task
    tasks,      \* session middleware: the request tasks that run
    flashes,    \* the Flash and GetFlash calls made so far, in order
    api,        \* cache store: the state of each caller of the RedisCache
    janitor,    \* MemoryStore: the cleanup goroutine and the stop channel
    jar,        \* the session ids the client was sent in a cookie
    started,    \* the number of requests started so far
    cache,      \* the cache keys of the Redis server: key -> [val, exp]
    cacheConfig,\* the CacheConfig the cache middleware was made with
    creq,       \* cache middleware: the state of the request task
    cprev,      \* cache middleware: the request served before this one
    touched     \* the number of cache calls the application made so far

storeVars == <<heap, mem, rds>>
configVars == <<backend, contextKey, maxAge>>
clientVars == <<lastOp, pending>>
sessVars == <<rq, tasks, jar, started, flashes, api, janitor>>
webVars == <<rq, tasks, jar, started, flashes, cacheConfig, creq, cprev>>
cacheVars == <<cache, cacheConfig, creq, cprev, touched>>

(***************************************************************************)
(* Session (session/store.go)                                               *)
(***************************************************************************)
NewSession(id, age, t) ==
    [id |-> id, data |-> EmptyData, createdAt |-> t,
     expiresAt |-> t + age, updatedAt |-> t]

\* A session that counts as expired at the instant of its expiry.
IsExpiredAtExpiry(s, t) == t >= s.expiresAt

IsExpired(s, t) == t > s.expiresAt

SessionSet(s, k, v, t) ==
    [s EXCEPT !.data = (k :> v) @@ @, !.updatedAt = t]

SessionDelete(s, k, t) ==
    [s EXCEPT !.data = [x \in (DOMAIN @) \ {k} |-> @[x]], !.updatedAt = t]

SessionHas(s, k) == k \in DOMAIN s.data

(***************************************************************************)
(* encoding/json as the stores use it: Marshal writes a Go int and a Go     *)
(* float64 as a JSON number and a string as a JSON string; Unmarshal into   *)
(* interface{} reads every JSON number as a float64.                        *)
(***************************************************************************)
MarshalValue(v) ==
    IF v.t \in {"int", "float64"} THEN [j |-> "number", v |-> v.v]
    ELSE [j |-> "string", v |-> v.v]

UnmarshalValue(j) ==
    IF j.j = "number" THEN [t |-> "float64", v |-> j.v]
    ELSE [t |-> "string", v |-> j.v]

Marshal(s) ==
    [s EXCEPT !.data = [k \in DOMAIN s.data |-> MarshalValue(s.data[k])]]

Unmarshal(b) ==
    [b EXCEPT !.data = [k \in DOMAIN b.data |-> UnmarshalValue(b.data[k])]]

(***************************************************************************)
(* The stores. A store operation is an operator from the store state        *)
(* st = [heap, mem, rds] to [st, err, ref]. `ok` is whether the Redis       *)
(* server answers the commands of the call.                                 *)
(***************************************************************************)
St == [heap |-> heap, mem |-> mem, rds |-> rds]

Result(st, err, ref) == [st |-> st, err |-> err, ref |-> ref]

\* new(Session): the reference of the next object allocated.
NewRef(h) == CHOOSE n \in 1..(Cardinality(DOMAIN h) + 1) : n \notin DOMAIN h

Alloc(st, s) == [st EXCEPT !.heap = (NewRef(@) :> s) @@ @]

\* MemoryStore
MemoryGet(st, v, t) ==
    IF v.kind # "id" \/ v.id \notin DOMAIN st.mem
    THEN Result(st, ErrSessionNotFound, NoRef)
    ELSE IF IsExpired(st.heap[st.mem[v.id]], t)
         THEN Result(st, ErrSessionExpired, NoRef)
         ELSE Result(st, Nil, st.mem[v.id])

MemorySet(st, ref) ==
    Result([st EXCEPT !.mem = (st.heap[ref].id :> ref) @@ @], Nil, NoRef)

MemoryDelete(st, id) ==
    Result([st EXCEPT !.mem = [x \in (DOMAIN @) \ {id} |-> @[x]]], Nil, NoRef)

MemoryTouch(st, id, t) ==
    IF id \notin DOMAIN st.mem
    THEN Result(st, ErrSessionNotFound, NoRef)
    ELSE Result([st EXCEPT !.heap[st.mem[id]].updatedAt = t], Nil, NoRef)

\* A sweep that also drops the records that expire at this instant.
MemoryCleanupAtExpiry(st, t) ==
    Result([st EXCEPT !.mem =
                [x \in {i \in DOMAIN @ : ~(t >= st.heap[@[i]].expiresAt)} |-> @[x]]],
           Nil, NoRef)

MemoryCleanup(st, t) ==
    Result([st EXCEPT !.mem =
                [x \in {i \in DOMAIN @ : ~(t > st.heap[@[i]].expiresAt)} |-> @[x]]],
           Nil, NoRef)

\* RedisStore. A key set with a TTL is gone once the TTL has elapsed.
RedisLive(st, id, t) == id \in DOMAIN st.rds /\ t <= st.rds[id].exp

RedisDelete(st, id, ok) ==
    IF ~ok THEN Result(st, ErrBackend, NoRef)
    ELSE Result([st EXCEPT !.rds = [x \in (DOMAIN @) \ {id} |-> @[x]]], Nil, NoRef)

RedisGet(st, v, t, ok) ==
    IF ~ok THEN Result(st, ErrBackend, NoRef)
    ELSE IF v.kind # "id" \/ ~RedisLive(st, v.id, t)
    THEN Result(st, ErrSessionNotFound, NoRef)
    ELSE LET s == Unmarshal(st.rds[v.id].val) IN
         IF IsExpired(s, t)
         THEN Result(RedisDelete(st, v.id, ok).st, ErrSessionExpired, NoRef)
         ELSE Result(Alloc(st, s), Nil, NewRef(st.heap))

\* A Set that writes the record whatever is left of its life.
RedisSetDeadRecord(st, ref, t, ok) ==
    LET s == st.heap[ref] IN
    IF ~ok THEN Result(st, ErrBackend, NoRef)
    ELSE Result([st EXCEPT !.rds =
                    (s.id :> [val |-> Marshal(s), exp |-> s.expiresAt]) @@ @],
                Nil, NoRef)

\* A Set that keeps the members of the record already stored which the
\* session saved does not have.
RedisSetMerging(st, ref, t, ok) ==
    LET s == st.heap[ref]
        ttl == s.expiresAt - t
        old == IF s.id \in DOMAIN st.rds THEN st.rds[s.id].val.data ELSE << >>
    IN  IF ttl <= 0 THEN Result(st, ErrSessionExpired, NoRef)
        ELSE IF ~ok THEN Result(st, ErrBackend, NoRef)
        ELSE Result([st EXCEPT !.rds =
                        (s.id :> [val |-> [Marshal(s) EXCEPT !.data = @ @@ old],
                                  exp |-> t + ttl]) @@ @],
                    Nil, NoRef)

RedisSet(st, ref, t, ok) ==
    LET s == st.heap[ref]
        ttl == s.expiresAt - t
    IN  IF ttl <= 0 THEN Result(st, ErrSessionExpired, NoRef)
        ELSE IF ~ok THEN Result(st, ErrBackend, NoRef)
        ELSE Result([st EXCEPT !.rds =
                        (s.id :> [val |-> Marshal(s), exp |-> t + ttl]) @@ @],
                    Nil, NoRef)

\* SetWithTTL: the key lives for the ttl given, whatever the session's expiry
RedisSetWithTTL(st, ref, ttl, t, ok) ==
    LET s == st.heap[ref] IN
    IF ~ok THEN Result(st, ErrBackend, NoRef)
    ELSE Result([st EXCEPT !.rds =
                    (s.id :> [val |-> Marshal(s), exp |-> t + ttl]) @@ @],
                Nil, NoRef)

\* Touch is Get, then Set of what Get decoded; the two commands may be
\* answered differently.
RedisTouchSet(st, ref, t, ok) ==
    RedisSet([st EXCEPT !.heap[ref].updatedAt = t], ref, t, ok)

RedisTouch(st, id, t, ok1, ok2) ==
    LET g == RedisGet(st, IdStr(id), t, ok1) IN
    IF g.err # Nil THEN g
    ELSE Result(RedisTouchSet(g.st, g.ref, t, ok2).st,
                RedisTouchSet(g.st, g.ref, t, ok2).err, NoRef)

\* CookieStore. base64.StdEncoding.DecodeString then json.Unmarshal succeed
\* on the output of Encode. A session id token decodes to at most 32 random
\* bytes, too few to hold an "expires_at" member, and any other text is not
\* a Session either: Get returns the decoder's error for both (or, for
\* bytes that happen to be JSON, ErrSessionExpired: never a session).
CookieEncode(s) == EncStr(Marshal(s))

CookieGet(st, v, t) ==
    IF v.kind = "empty" THEN Result(st, ErrSessionNotFound, NoRef)
    ELSE IF v.kind # "enc" THEN Result(st, ErrDecode, NoRef)
    ELSE IF IsExpired(Unmarshal(v.bytes), t)
         THEN Result(st, ErrSessionExpired, NoRef)
         ELSE Result(Alloc(st, Unmarshal(v.bytes)), Nil, NewRef(st.heap))

CookieSet(st, ref) == Result(st, Nil, NoRef)

CookieDelete(st, id) == Result(st, Nil, NoRef)

CookieTouch(st, id) == Result(st, Nil, NoRef)

\* The Store interface, dispatched on the variant constructed.
StoreGet(b, st, v, t, ok) ==
    CASE b = "memory" -> MemoryGet(st, v, t)
      [] b = "redis" -> RedisGet(st, v, t, ok)
      [] b = "cookie" -> CookieGet(st, v, t)

StoreSet(b, st, ref, t, ok) ==
    CASE b = "memory" -> MemorySet(st, ref)
      [] b = "redis" -> RedisSet(st, ref, t, ok)
      [] b = "cookie" -> CookieSet(st, ref)

StoreDelete(b, st, id, ok) ==
    CASE b = "memory" -> MemoryDelete(st, id)
      [] b = "redis" -> RedisDelete(st, id, ok)
      [] b = "cookie" -> CookieDelete(st, id)

StoreTouch(b, st, id, t, ok1, ok2) ==
    CASE b = "memory" -> MemoryTouch(st, id, t)
      [] b = "redis" -> RedisTouch(st, id, t, ok1, ok2)
      [] b = "cookie" -> CookieTouch(st, id)

StoreCleanup(b, st, t) ==
    CASE b = "memory" -> MemoryCleanup(st, t)
      [] b = "redis" -> Result(st, Nil, NoRef)
      [] b = "cookie" -> Result(st, Nil, NoRef)

\* The Redis server drops the keys whose TTL has elapsed.
RedisExpire(kv, t) == [x \in {i \in DOMAIN kv : t <= kv[i].exp} |-> kv[x]]

\* Whether the backend may fail a call: only the networked one does.
Answers == IF backend = "redis" /\ faults < MaxFaults THEN {TRUE, FALSE} ELSE {TRUE}

Injected(ok) == IF ok THEN 0 ELSE 1


(***************************************************************************)
(* The cache store (cache/redis.go, RedisCache). A key holds a JSON text    *)
(* and the time at which the server drops it, if any.                       *)
(***************************************************************************)
NoExpiry == -1

\* A response: what c.SetHeader, c.Status and c.Send wrote. Headers are a
\* map from names to values, the body is nil or a byte string.
NoHeaders == << >>
NoResponse == [status |-> 0, headers |-> NoHeaders, body |-> Nil]
JsonHeaders == [h \in {"Content-Type"} |-> "application/json"]

\* cache/middleware.go lines 114-118: CachedResponse{Status, Headers, Body}
CachedResponse(status, headers, body) ==
    [status |-> status, headers |-> headers, body |-> body]

\* json.Marshal of a CachedResponse: an object whose body is the base64
\* text of the bytes, or null
MarshalResponse(resp) ==
    [j |-> "object",
     f |-> [status |-> resp.status,
            headers |-> resp.headers,
            body |-> IF resp.body = Nil THEN [j |-> "null", b64 |-> Nil]
                     ELSE [j |-> "string", b64 |-> resp.body]]]

JsonNull == [j |-> "null", f |-> << >>]

\* Other values an application keeps in the cache: a counter, a user record.
JsonNumber == [j |-> "number", f |-> << >>]
JsonUser == [j |-> "object", f |-> [name |-> "x"]]

\* json.Unmarshal(data, &cached): a text that is not an object is an error,
\* a field the object lacks keeps its zero value
UnmarshalResponse(js) ==
    IF js.j # "object"
    THEN [err |-> ErrDecode, val |-> NoResponse]
    ELSE [err |-> Nil,
          val |-> [status |-> IF "status" \in DOMAIN js.f THEN js.f.status ELSE 0,
                   headers |-> IF "headers" \in DOMAIN js.f THEN js.f.headers
                               ELSE NoHeaders,
                   body |-> IF "body" \in DOMAIN js.f THEN js.f.body.b64 ELSE Nil]]

\* RedisCache.Get(key, dest)
CacheGet(kv, key) ==
    IF key \notin DOMAIN kv
    THEN [err |-> ErrCacheMiss, val |-> NoResponse]
    ELSE UnmarshalResponse(kv[key].val)

\* RedisCache.Set(key, value, ttl), value already marshalled. The ttl goes
\* to client.Set as it is, which sends an expiry only when it is positive:
\* with a ttl of 0 or less the key is kept for ever
CacheSet(kv, key, js, ttl, t) ==
    [k \in DOMAIN kv \cup {key} |->
        IF k = key
        THEN [val |-> js, exp |-> IF ttl <= 0 THEN NoExpiry ELSE t + ttl]
        ELSE kv[k]]

\* RedisCache.Delete(key)
CacheDelete(kv, key) == [k \in DOMAIN kv \ {key} |-> kv[k]]

\* The Redis server drops the cache keys whose TTL has elapsed.
CacheExpire(kv, t) ==
    [k \in {i \in DOMAIN kv : kv[i].exp = NoExpiry \/ t < kv[i].exp} |-> kv[k]]

(***************************************************************************)
(* The state of the request task of the cache middleware                    *)
(* (cache/middleware.go, the closure of lines 51-109).                      *)
(***************************************************************************)
Methods == {"GET", "HEAD", "POST"}
Paths == {"/a"}

CacheIdle == [pc |-> "idle", method |-> "GET", path |-> "/a", nocache |-> FALSE,
              key |-> "", calls |-> 0, resp |-> NoResponse, hresp |-> NoResponse,
              herr |-> Nil, result |-> Nil, gets |-> 0, sets |-> 0,
              cold |-> TRUE, seen |-> JsonNull, hit |-> FALSE, fresh |-> 0,
              t |-> 0, gerr |-> Nil]

\* A configuration that is not used: the middleware is not installed.
NoCacheConfig == [ttl |-> 0, onlyStatus |-> {}, skipFunc |-> FALSE]

(***************************************************************************)
(* The callers of the cache store (cache/redis.go): goroutines that share   *)
(* one RedisCache. A call that takes several commands is at a position pc   *)
(* and began at time t, log holds what the caller's finished calls returned.*)
(***************************************************************************)
MaxCallers == 2
MaxCalls == 3

Callers == 1..MaxCallers

ApiIdle == [pc |-> "idle", key |-> "", ttl |-> 0, tags |-> << >>, i |-> 0,
            val |-> JsonNull, keys |-> {}, computes |-> 0, t |-> 0, log |-> << >>]

NoApi == [c \in Callers |-> ApiIdle]

\* The cache store has no caller.
NoCallers == << >>

\* What a call returned: arg is its ttl or its amount, val the value returned.
ApiEv(op, key, arg, val, err) ==
    [op |-> op, key |-> key, arg |-> arg, val |-> val, err |-> err]

\* The cleanup goroutine of a MemoryStore (session/store.go, startCleanup):
\* pc is where the goroutine is ("none" when it was not started), tick
\* whether ticker.C holds a tick, closed whether stopCh is closed.
NoJanitor == [interval |-> 0, pc |-> "none", tick |-> FALSE, closed |-> FALSE]

(***************************************************************************)
(* The state of a request task of the session middleware                    *)
(* (session/middleware.go, the closure of lines 56-112).                    *)
(***************************************************************************)
Tasks == {1, 2}

NoCookie == [kind |-> "absent", id |-> NoId]

ContextKeys == {"session", "custom"}

Idle == [pc |-> "idle", cookie |-> NoCookie, sess |-> NoRef, tmp |-> NoRef,
         ctx |-> << >>, herr |-> Nil, result |-> Nil, log |-> << >>,
         ops |-> 0, aborted |-> FALSE, base |-> 0]

NoTasks == [r \in Tasks |-> Idle]

(***************************************************************************)
(* A client of the Store interface, as the README's TestSessionStore is:    *)
(* it creates sessions, sets values in them, and calls the store.           *)
(***************************************************************************)
SessionAges == {-1, 1}

NoSession == [id |-> NoId]

NoOp == [op |-> "none", arg |-> EmptyStr, err |-> Nil, ref |-> NoRef,
         sess |-> NoSession]

Op(op, arg, err, ref, sess) ==
    [op |-> op, arg |-> arg, err |-> err, ref |-> ref, sess |-> sess]

\* What the client remembers of a session it saved.
Saved(s) == [id |-> s.id, data |-> s.data, expiresAt |-> s.expiresAt]

ForgetSaved(id) == IF pending.id = id THEN NoSession ELSE pending

Refs == DOMAIN heap

Forget(f, id) == [x \in (DOMAIN f) \ {id} |-> f[x]]

\* The client reads what Get returned and keeps no reference to it: an
\* object that Get or Touch decoded is dropped when the call is over.
Kept(st) == [x \in Refs |-> st.heap[x]]

Returned(res) == IF res.err = Nil THEN Saved(res.st.heap[res.ref]) ELSE NoSession

ClientNew ==
    /\ nextId < MaxIds
    /\ \E age \in SessionAges :
          heap' = (NewRef(heap) :> NewSession(nextId + 1, age, now)) @@ heap
    /\ nextId' = nextId + 1
    /\ lastOp' = Op("New", IdStr(nextId + 1), Nil, NewRef(heap), NoSession)
    /\ UNCHANGED <<configVars, cacheVars, sessVars, now, mem, rds, faults, pending>>

ClientSessionSet ==
    \E ref \in Refs, k \in DataKeys, v \in DataVals :
       /\ heap' = [heap EXCEPT ![ref] = SessionSet(@, k, v, now)]
       /\ lastOp' = Op("SessionSet", IdStr(heap[ref].id), Nil, ref, NoSession)
       /\ pending' = ForgetSaved(heap[ref].id)
       /\ UNCHANGED <<configVars, cacheVars, sessVars, now, mem, rds, nextId, faults>>

ClientSet ==
    \E ref \in Refs, ok \in Answers :
       LET res == StoreSet(backend, St, ref, now, ok) IN
       /\ heap' = Kept(res.st) /\ mem' = res.st.mem /\ rds' = res.st.rds
       /\ faults' = faults + Injected(ok)
       /\ lastOp' = Op("Set", IdStr(heap[ref].id), res.err, ref, NoSession)
       /\ pending' = IF res.err = Nil THEN Saved(heap[ref])
                     ELSE ForgetSaved(heap[ref].id)
       /\ UNCHANGED <<configVars, cacheVars, sessVars, now, nextId>>

\* The ttl a client passes to RedisStore.SetWithTTL.
CustomTTLs == {2}

ClientSetWithTTL ==
    /\ backend = "redis"
    /\ \E ref \in Refs, ttl \in CustomTTLs, ok \in Answers :
          LET res == RedisSetWithTTL(St, ref, ttl, now, ok) IN
          /\ heap' = Kept(res.st) /\ mem' = res.st.mem /\ rds' = res.st.rds
          /\ faults' = faults + Injected(ok)
          /\ lastOp' = Op("SetWithTTL", IdStr(heap[ref].id), res.err, ref, NoSession)
          /\ pending' = ForgetSaved(heap[ref].id)
    /\ UNCHANGED <<configVars, cacheVars, sessVars, now, nextId>>

\* The strings a client can pass to Get. The output of Encode is passed to
\* the CookieStore only: to the other stores it is a key never set, as any
\* other text is.
GetArgs ==
    {EmptyStr, GarbageStr} \cup {IdStr(i) : i \in 1..nextId}
        \cup IF backend = "cookie" THEN {CookieEncode(heap[r]) : r \in Refs} ELSE {}

ClientGet ==
    \E v \in GetArgs, ok \in Answers :
       LET res == StoreGet(backend, St, v, now, ok) IN
       /\ heap' = Kept(res.st) /\ mem' = res.st.mem /\ rds' = res.st.rds
       /\ faults' = faults + Injected(ok)
       /\ lastOp' = Op("Get", v, res.err,
                       IF res.ref \in Refs THEN res.ref ELSE NoRef,
                       Returned(res))
       /\ UNCHANGED <<configVars, cacheVars, sessVars, now, nextId, pending>>

ClientDelete ==
    \E id \in 1..nextId, ok \in Answers :
       LET res == StoreDelete(backend, St, id, ok) IN
       /\ heap' = Kept(res.st) /\ mem' = res.st.mem /\ rds' = res.st.rds
       /\ faults' = faults + Injected(ok)
       /\ lastOp' = Op("Delete", IdStr(id), res.err, NoRef, NoSession)
       /\ pending' = ForgetSaved(id)
       /\ UNCHANGED <<configVars, cacheVars, sessVars, now, nextId>>

ClientTouch ==
    \E id \in 1..nextId, ok \in Answers :
       LET res == StoreTouch(backend, St, id, now, ok, ok) IN
       /\ heap' = Kept(res.st) /\ mem' = res.st.mem /\ rds' = res.st.rds
       /\ faults' = faults + Injected(ok)
       /\ lastOp' = Op("Touch", IdStr(id), res.err, NoRef, NoSession)
       /\ pending' = ForgetSaved(id)
       /\ UNCHANGED <<configVars, cacheVars, sessVars, now, nextId>>

ClientCleanup ==
    LET res == StoreCleanup(backend, St, now) IN
    /\ heap' = Kept(res.st) /\ mem' = res.st.mem /\ rds' = res.st.rds
    /\ lastOp' = Op("Cleanup", EmptyStr, res.err, NoRef, NoSession)
    /\ UNCHANGED <<configVars, cacheVars, sessVars, now, nextId, faults, pending>>

\* Time passes; the Redis server expires its keys.
Tick ==
    /\ now < MaxTime
    /\ now' = now + 1
    /\ rds' = RedisExpire(rds, now + 1)
    /\ cache' = CacheExpire(cache, now + 1)
    /\ UNCHANGED <<configVars, sessVars, heap, mem, nextId, faults, lastOp, pending,
                   cacheConfig, creq, cprev, touched>>

vars == <<backend, contextKey, maxAge, now, heap, mem, rds, nextId, faults,
          lastOp, pending, rq, tasks, jar, started, flashes, api, janitor,
          cache, cacheConfig, creq, cprev, touched>>

\* The cache middleware is not installed and nothing uses the cache.
NoCache ==
    /\ cache = << >>
    /\ cacheConfig = NoCacheConfig
    /\ creq = CacheIdle
    /\ cprev = CacheIdle
    /\ touched = 0

InitStore ==
    /\ backend \in Backends
    /\ contextKey = "session"
    /\ maxAge = MaxAge24h
    /\ now = 0
    /\ heap = << >>
    /\ mem = << >>
    /\ rds = << >>
    /\ nextId = 0
    /\ faults = MaxFaults  \* this client's server answers every command
    /\ lastOp = NoOp
    /\ pending = NoSession
    /\ rq = NoTasks
    /\ tasks = {}
    /\ jar = {}
    /\ started = 0
    /\ api = NoCallers
    /\ janitor = NoJanitor
    /\ flashes = << >>
    /\ NoCache

NextStore ==
    \/ ClientNew
    \/ ClientSessionSet
    \/ ClientSet
    \/ ClientSetWithTTL
    \/ ClientGet
    \/ ClientDelete
    \/ ClientTouch
    \/ ClientCleanup
    \/ Tick

SpecStore == InitStore /\ [][NextStore]_vars

(***************************************************************************)
(* C1: for every backend, Set(S) of a session that is not expired followed  *)
(* by Get(S.ID), with no other call on that id in between and the backend   *)
(* answering, returns a session with the key/value contents of S.           *)
(***************************************************************************)
RoundTripCase ==
    /\ lastOp.op = "Get"
    /\ lastOp.err # ErrBackend
    /\ pending # NoSession
    /\ lastOp.arg = IdStr(pending.id)
    /\ now < pending.expiresAt

C1_RoundTrip ==
    RoundTripCase =>
        /\ lastOp.err = Nil
        /\ lastOp.sess.data = pending.data

(***************************************************************************)
(* The session middleware (session/middleware.go). A request task takes     *)
(* one step per store call; the tasks of different requests interleave.     *)
(* Each task logs what it did: the store calls with their results, the      *)
(* cookies it set on the response, the handler's call and return.           *)
(***************************************************************************)
MaxRequests == 2
MaxOps == 1
MaxAppOps == 1

\* Config.MaxAge as the caller passes it; Middleware replaces 0 by 24 hours.
ConfigMaxAges == {-1, 1}

MiddlewareMaxAge(a) == IF a = 0 THEN MaxAge24h ELSE a

Ev(e, id, err) == [e |-> e, id |-> id, err |-> err, exp |-> 0, t |-> 0]

\* Store.Set of session s at time t
EvSet(s, err, t) == [e |-> "Set", id |-> s.id, err |-> err, exp |-> s.expiresAt, t |-> t]

\* c.Cookie(&http.Cookie{Value: value, MaxAge: age})
EvCookie(id, age) == [e |-> "Cookie", id |-> id, err |-> Nil, exp |-> age, t |-> 0]

\* The objects the program still holds a pointer to; the others are garbage.
Roots(m, q) ==
    {m[i] : i \in DOMAIN m}
        \cup {q[r].sess : r \in Tasks} \cup {q[r].tmp : r \in Tasks}
        \cup UNION {{q[r].ctx[k] : k \in DOMAIN q[r].ctx} : r \in Tasks}

Collect(h, roots) == [x \in (DOMAIN h) \cap roots |-> h[x]]

\* The next state of the stores and of the tasks.
Commit(st, q) ==
    /\ rq' = q
    /\ mem' = st.mem
    /\ rds' = st.rds
    /\ heap' = Collect(st.heap, Roots(st.mem, q))

\* A task that is over holds nothing; the response goes to the client.
Finish(task, result, log) ==
    [task EXCEPT !.pc = "done", !.result = result, !.log = log,
                 !.sess = NoRef, !.tmp = NoRef, !.ctx = << >>]

Delivered(log) ==
    {log[i].id : i \in {j \in DOMAIN log : log[j].e = "Cookie" /\ log[j].id # NoId}}

\* The cookie a request carries: none, an empty one, one the client was
\* sent, or any other text.
RequestCookies == {NoCookie, EmptyStr, GarbageStr} \cup {IdStr(i) : i \in jar}

\* lines 57-61: c.GetCookie, and whether Store.Get is called at all
Start(r) ==
    /\ rq[r].pc \in {"idle", "done", "panicked"}
    /\ started < MaxRequests
    /\ started' = started + 1
    /\ \E c \in RequestCookies :
          Commit(St, [rq EXCEPT ![r] =
              [Idle EXCEPT !.cookie = c, !.base = nextId,
                           !.pc = IF c.kind \in {"absent", "empty"}
                                  THEN "create" ELSE "resolve"]])
    /\ UNCHANGED <<configVars, cacheVars, clientVars, now, nextId, faults, tasks, flashes, api, janitor, jar>>

\* lines 62-66: session, err = config.Store.Get(cookie.Value); every error
\* leaves session nil
Resolved(res) == IF res.err = Nil THEN res.ref ELSE NoRef

\* A middleware that makes a new session whatever Store.Get answered.
AfterGetAlwaysCreate(session) == "create"

\* lines 70 and 75: a new session if none was loaded, else a touch
AfterGet(session) == IF session = NoRef THEN "create" ELSE "touch"

Resolve(r) ==
    /\ rq[r].pc = "resolve"
    /\ \E ok \in Answers :
          LET res == StoreGet(backend, St, rq[r].cookie, now, ok) IN
          /\ Commit(res.st, [rq EXCEPT ![r] =
                [@ EXCEPT !.sess = Resolved(res),
                          !.log = Append(@, Ev("Get", rq[r].cookie.id, res.err)),
                          !.pc = AfterGet(Resolved(res))]])
          /\ faults' = faults + Injected(ok)
    /\ UNCHANGED <<configVars, cacheVars, clientVars, now, nextId, tasks, flashes, api, janitor, jar, started>>

\* lines 80-85: c.Set(config.ContextKey, session), then next(c)
Expose(task, ref, id) ==
    [task EXCEPT !.pc = "handler", !.sess = ref, !.tmp = NoRef,
                 !.ctx = (contextKey :> ref),
                 !.log = Append(@, Ev("Call", id, Nil))]

\* A middleware that goes on to the handler whatever Store.Set answered.
CreateSessionIgnoringError(task, st, id, t, ok) ==
    LET ref == NewRef(st.heap)
        s == NewSession(id, maxAge, t)
        res == StoreSet(backend, Alloc(st, s), ref, t, ok)
    IN  [st |-> res.st,
         task |-> Expose([task EXCEPT !.log = Append(@, EvSet(s, res.err, t))],
                         ref, s.id)]

\* lines 70-74: session = NewSession(config.MaxAge); if Store.Set fails the
\* middleware returns the error, else it goes on to the handler
CreateSession(task, st, id, t, ok) ==
    LET ref == NewRef(st.heap)
        s == NewSession(id, maxAge, t)
        res == StoreSet(backend, Alloc(st, s), ref, t, ok)
        log == Append(task.log, EvSet(s, res.err, t))
    IN  IF res.err # Nil
        THEN [st |-> res.st, task |-> Finish(task, res.err, log)]
        ELSE [st |-> res.st, task |-> Expose([task EXCEPT !.log = log], ref, s.id)]

\* generateSessionID: 32 bytes of crypto/rand, an id no session had before
Create(r) ==
    /\ rq[r].pc = "create"
    /\ nextId' = nextId + 1
    /\ \E ok \in Answers :
          LET c == CreateSession(rq[r], St, nextId + 1, now, ok) IN
          /\ faults' = faults + Injected(ok)
          /\ Commit(c.st, [rq EXCEPT ![r] = c.task])
    /\ UNCHANGED <<configVars, cacheVars, clientVars, now, tasks, flashes, api, janitor, jar, started>>

\* lines 75-78: config.Store.Touch(session.ID), its error dropped.
\* MemoryStore and CookieStore: one call.
Touch(r) ==
    /\ rq[r].pc = "touch"
    /\ backend # "redis"
    /\ LET id == heap[rq[r].sess].id
           res == StoreTouch(backend, St, id, now, TRUE, TRUE)
       IN  Commit(res.st, [rq EXCEPT ![r] =
               Expose([@ EXCEPT !.log = Append(@, Ev("Touch", id, res.err))],
                      rq[r].sess, id)])
    /\ UNCHANGED <<configVars, cacheVars, clientVars, now, nextId, faults, tasks, flashes, api, janitor, jar, started>>

\* RedisStore.Touch, first command: r.Get(id)
TouchGet(r) ==
    /\ rq[r].pc = "touch"
    /\ backend = "redis"
    /\ \E ok \in Answers :
          LET id == heap[rq[r].sess].id
              res == RedisGet(St, IdStr(id), now, ok)
          IN  /\ faults' = faults + Injected(ok)
              /\ IF res.err # Nil
                 THEN Commit(res.st, [rq EXCEPT ![r] =
                          Expose([@ EXCEPT !.log = Append(@, Ev("Touch", id, res.err))],
                                 rq[r].sess, id)])
                 ELSE Commit(res.st, [rq EXCEPT ![r] =
                          [@ EXCEPT !.pc = "touchSet", !.tmp = res.ref]])
    /\ UNCHANGED <<configVars, cacheVars, clientVars, now, nextId, tasks, flashes, api, janitor, jar, started>>

\* RedisStore.Touch, second command: r.Set(session)
TouchSet(r) ==
    /\ rq[r].pc = "touchSet"
    /\ \E ok \in Answers :
          LET id == heap[rq[r].sess].id
              res == RedisTouchSet(St, rq[r].tmp, now, ok)
          IN  /\ faults' = faults + Injected(ok)
              /\ Commit(res.st, [rq EXCEPT ![r] =
                     Expose([@ EXCEPT !.log = Append(@, Ev("Touch", id, res.err))],
                            rq[r].sess, id)])
    /\ UNCHANGED <<configVars, cacheVars, clientVars, now, nextId, tasks, flashes, api, janitor, jar, started>>

\* lines 117-124: GetSession reads the context key "session"
GetSession(ctx) ==
    IF "session" \in DOMAIN ctx
    THEN [ref |-> ctx["session"], err |-> Nil]
    ELSE [ref |-> NoRef, err |-> ErrSessionNotFound]

\* A handler: sess, err := session.GetSession(c); sess.Set(k, v)
HandlerVals == {GoInt}

HandlerSet(r) ==
    /\ rq[r].pc = "handler"
    /\ rq[r].ops < MaxOps
    /\ GetSession(rq[r].ctx).err = Nil
    /\ \E k \in DataKeys, v \in HandlerVals :
          LET ref == GetSession(rq[r].ctx).ref IN
          Commit([St EXCEPT !.heap[ref] = SessionSet(@, k, v, now)],
                 [rq EXCEPT ![r].ops = @ + 1])
    /\ UNCHANGED <<configVars, cacheVars, clientVars, now, nextId, faults, tasks, flashes, api, janitor, jar, started>>

\* lines 127-148: DestroySession, as the handler of POST /logout calls it:
\* return session.DestroySession(c, sessionConfig)
DestroySession(task, st, ok) ==
    LET g == GetSession(task.ctx)
        id == st.heap[g.ref].id
        res == StoreDelete(backend, st, id, ok)
    IN  IF g.err # Nil
        THEN [st |-> st, err |-> g.err,
              log |-> Append(task.log, Ev("Destroy", NoId, g.err))]
        ELSE IF res.err # Nil
        THEN [st |-> res.st, err |-> res.err,
              log |-> Append(task.log, Ev("Destroy", id, res.err))]
        ELSE [st |-> res.st, err |-> Nil,
              log |-> Append(task.log, Ev("Destroy", id, Nil)) \o <<EvCookie(NoId, -1)>>]

HandlerDestroy(r) ==
    /\ rq[r].pc = "handler"
    /\ \E ok \in Answers :
          LET d == DestroySession(rq[r], St, ok) IN
          /\ faults' = faults + Injected(ok)
          /\ Commit(d.st, [rq EXCEPT ![r] =
                 [@ EXCEPT !.pc = "persist", !.herr = d.err,
                           !.log = Append(d.log, Ev("Return", NoId, d.err))]])
    /\ UNCHANGED <<configVars, cacheVars, clientVars, now, nextId, tasks, flashes, api, janitor, jar, started>>

\* line 85: err = next(c). The client may have gone away while the handler
\* ran (the request's context is cancelled): nothing in the middleware reads
\* that, and the handler returns as it would have.
HandlerReturn(r) ==
    /\ rq[r].pc = "handler"
    /\ \E e \in {Nil, ErrHandler}, gone \in BOOLEAN :
          Commit(St, [rq EXCEPT ![r] =
              [@ EXCEPT !.pc = "persist", !.herr = e, !.aborted = gone,
                        !.log = Append(@, Ev("Return", NoId, e))]])
    /\ UNCHANGED <<configVars, cacheVars, clientVars, now, nextId, faults, tasks, flashes, api, janitor, jar, started>>

\* next(c) panics (panic(http.ErrAbortHandler), a nil dereference): the
\* middleware's frame is unwound, nothing after line 85 runs.
HandlerPanic(r) ==
    /\ rq[r].pc = "handler"
    /\ Commit(St, [rq EXCEPT ![r] =
           [@ EXCEPT !.pc = "panicked", !.sess = NoRef, !.tmp = NoRef, !.ctx = << >>,
                     !.log = Append(@, Ev("Panic", NoId, Nil))]])
    /\ jar' = jar \cup Delivered(rq[r].log)
    /\ UNCHANGED <<configVars, cacheVars, clientVars, now, nextId, faults, tasks, flashes, api, janitor, started>>

\* A middleware that sets the cookie whatever Store.Set answered.
PersistSessionCookieAlways(task, st, t, ok) ==
    LET ref == task.ctx[contextKey]
        st1 == [st EXCEPT !.heap[ref].expiresAt = t + maxAge]
        s == st1.heap[ref]
        res == StoreSet(backend, st1, ref, t, ok)
        log == Append(task.log, EvSet(s, res.err, t))
    IN  [st |-> res.st,
         task |-> Finish(task, IF res.err # Nil THEN res.err ELSE task.herr,
                         Append(log, EvCookie(s.id, maxAge)))]

\* lines 87-111: the session found in the context gets a new expiry and is
\* saved; the cookie is set if the save succeeded.
PersistSession(task, st, t, ok) ==
    LET ref == task.ctx[contextKey]
        st1 == [st EXCEPT !.heap[ref].expiresAt = t + maxAge]
        s == st1.heap[ref]
        res == StoreSet(backend, st1, ref, t, ok)
        log == Append(task.log, EvSet(s, res.err, t))
    IN  IF contextKey \notin DOMAIN task.ctx
        THEN [st |-> st, task |-> Finish(task, task.herr, task.log)]
        ELSE IF res.err # Nil
        THEN [st |-> res.st, task |-> Finish(task, res.err, log)]
        ELSE [st |-> res.st,
              task |-> Finish(task, task.herr, Append(log, EvCookie(s.id, maxAge)))]

Persist(r) ==
    /\ rq[r].pc = "persist"
    /\ \E ok \in Answers :
          LET p == PersistSession(rq[r], St, now, ok) IN
          /\ faults' = faults + Injected(ok)
          /\ Commit(p.st, [rq EXCEPT ![r] = p.task])
          /\ jar' = jar \cup Delivered(p.task.log)
    /\ UNCHANGED <<configVars, cacheVars, clientVars, now, nextId, tasks, flashes, api, janitor, started>>

InitSession ==
    /\ backend \in Backends
    /\ contextKey \in ContextKeys
    /\ maxAge \in {MiddlewareMaxAge(a) : a \in ConfigMaxAges}
    /\ now = 0
    /\ heap = << >>
    /\ mem = << >>
    /\ rds = << >>
    /\ nextId = 0
    /\ faults = 0
    /\ lastOp = NoOp
    /\ pending = NoSession
    /\ rq = NoTasks
    /\ tasks = {1}
    /\ jar = {}
    /\ started = 0
    /\ api = NoCallers
    /\ janitor = NoJanitor
    /\ flashes = << >>
    /\ NoCache

NextSession ==
    \/ \E r \in tasks : Start(r)
    \/ \E r \in tasks : Resolve(r)
    \/ \E r \in tasks : Create(r)
    \/ \E r \in tasks : Touch(r)
    \/ \E r \in tasks : TouchGet(r)
    \/ \E r \in tasks : TouchSet(r)
    \/ \E r \in tasks : HandlerSet(r)
    \/ \E r \in tasks : HandlerDestroy(r)
    \/ \E r \in tasks : HandlerReturn(r)
    \/ \E r \in tasks : HandlerPanic(r)
    \/ \E r \in tasks : Persist(r)
    \/ Tick

SpecSession == InitSession /\ [][NextSession]_vars

(***************************************************************************)
(* Handlers that call the helpers of session/middleware.go:                 *)
(* RegenerateSession, Flash and GetFlash. RegenerateSession makes two store *)
(* calls and is two steps; what it does after Store.Delete returns is local *)
(* to the request and belongs to the second step.                           *)
(***************************************************************************)
\* A RegenerateSession that deletes the old session before it saves the new.
RegenerateDeleteFirst(task, st, id, t, ok) ==
    LET g == GetSession(task.ctx)
        old == st.heap[g.ref]
        ref == NewRef(st.heap)
        s == [NewSession(id, maxAge, t) EXCEPT !.data = old.data]
        del == StoreDelete(backend, st, old.id, TRUE)
        res == StoreSet(backend, Alloc(del.st, s), ref, t, ok)
    IN  IF g.err # Nil
        THEN [st |-> st, err |-> g.err, ref |-> NoRef, log |-> task.log]
        ELSE [st |-> res.st, err |-> res.err,
              ref |-> IF res.err = Nil THEN ref ELSE NoRef,
              log |-> Append(task.log, EvSet(s, res.err, t))]

\* lines 151-164: GetSession; NewSession(config.MaxAge), which gets the old
\* session's Data; Store.Set(newSession), whose error is returned
RegenerateSet(task, st, id, t, ok) ==
    LET g == GetSession(task.ctx)
        old == st.heap[g.ref]
        ref == NewRef(st.heap)
        s == [NewSession(id, maxAge, t) EXCEPT !.data = old.data]
        res == StoreSet(backend, Alloc(st, s), ref, t, ok)
    IN  IF g.err # Nil
        THEN [st |-> st, err |-> g.err, ref |-> NoRef, log |-> task.log]
        ELSE [st |-> res.st, err |-> res.err,
              ref |-> IF res.err = Nil THEN ref ELSE NoRef,
              log |-> Append(task.log, EvSet(s, res.err, t))]

\* A RegenerateSession that leaves the old session in the context.
RegenerateKeepHandle(task, st, ok) ==
    LET old == st.heap[GetSession(task.ctx).ref]
        new == st.heap[task.tmp]
        res == StoreDelete(backend, st, old.id, ok)
    IN  [st |-> res.st,
         task |-> [task EXCEPT !.pc = "handler", !.tmp = NoRef,
                      !.log = @ \o <<Ev("Delete", old.id, res.err),
                                     EvCookie(new.id, maxAge)>>]]

\* lines 166-185: Store.Delete(oldSession.ID), its error dropped;
\* c.Set(config.ContextKey, newSession); c.Cookie with the new id
RegenerateSwitch(task, st, ok) ==
    LET old == st.heap[GetSession(task.ctx).ref]
        new == st.heap[task.tmp]
        res == StoreDelete(backend, st, old.id, ok)
    IN  [st |-> res.st,
         task |-> [task EXCEPT !.pc = "handler", !.tmp = NoRef,
                      !.ctx = [k \in DOMAIN @ \cup {contextKey} |->
                                  IF k = contextKey THEN task.tmp ELSE @[k]],
                      !.log = @ \o <<Ev("Delete", old.id, res.err),
                                     EvCookie(new.id, maxAge)>>]]

\* A handler: if err := session.RegenerateSession(c, config); err != nil
\* { return err }, once in a request
HandlerRegenerate(r) ==
    /\ rq[r].pc = "handler"
    /\ \A i \in DOMAIN rq[r].log : rq[r].log[i].e # "Delete"
    /\ \E ok \in Answers :
          LET g == RegenerateSet(rq[r], St, nextId + 1, now, ok) IN
          /\ GetSession(rq[r].ctx).err # Nil => ok
          /\ faults' = faults + Injected(ok)
          /\ nextId' = IF GetSession(rq[r].ctx).err = Nil THEN nextId + 1 ELSE nextId
          /\ Commit(g.st, [rq EXCEPT ![r] =
                 IF g.err # Nil
                 THEN [@ EXCEPT !.pc = "persist", !.herr = g.err,
                                !.log = Append(g.log, Ev("Return", NoId, g.err))]
                 ELSE [@ EXCEPT !.pc = "regenerate", !.tmp = g.ref,
                                !.log = g.log]])
    /\ UNCHANGED <<configVars, cacheVars, clientVars, now, tasks, flashes, api, janitor, jar, started>>

HandlerRegenerateSwitch(r) ==
    /\ rq[r].pc = "regenerate"
    /\ \E ok \in Answers :
          LET g == RegenerateSwitch(rq[r], St, ok) IN
          /\ faults' = faults + Injected(ok)
          /\ Commit(g.st, [rq EXCEPT ![r] = g.task])
    /\ UNCHANGED <<configVars, cacheVars, clientVars, now, nextId, tasks, flashes, api, janitor, jar, started>>

\* lines 189-198 and 201-213: the key a flash message is kept under
FlashKey(key) == "_flash_" \o key

FlashKeys == {"success"}

FlashVals == {GoString}

\* the nil interface{} that GetFlash returns with false
NoValue == [t |-> "nil", v |-> 0]

\* lines 189-198: Flash, after GetSession: session.Set(flashKey, value)
Flash(s, key, value, t) == SessionSet(s, FlashKey(key), value, t)

\* lines 201-213: GetFlash, after GetSession: value, ok := session.Get(flashKey);
\* if ok { session.Delete(flashKey) }; return value, ok
GetFlash(s, key, t) ==
    IF SessionHas(s, FlashKey(key))
    THEN [sess |-> SessionDelete(s, FlashKey(key), t),
          val |-> s.data[FlashKey(key)], ok |-> TRUE]
    ELSE [sess |-> s, val |-> NoValue, ok |-> FALSE]

\* A call of Flash or GetFlash on session id, and what it returned.
FlashCall(e, id, key, val, ok) ==
    [e |-> e, id |-> id, key |-> key, val |-> val, ok |-> ok]

\* A handler: session.Flash(c, key, value)
HandlerFlash(r) ==
    /\ rq[r].pc = "handler"
    /\ rq[r].ops < MaxOps
    /\ GetSession(rq[r].ctx).err = Nil
    /\ \E key \in FlashKeys, value \in FlashVals :
          LET ref == GetSession(rq[r].ctx).ref IN
          /\ Commit([St EXCEPT !.heap[ref] = Flash(@, key, value, now)],
                    [rq EXCEPT ![r].ops = @ + 1])
          /\ flashes' = Append(flashes, FlashCall("Flash", heap[ref].id, key, value, TRUE))
    /\ UNCHANGED <<configVars, cacheVars, clientVars, now, nextId, faults, tasks, jar, started,
                   api, janitor>>

\* A handler: message, ok := session.GetFlash(c, key)
HandlerGetFlash(r) ==
    /\ rq[r].pc = "handler"
    /\ rq[r].ops < MaxOps
    /\ GetSession(rq[r].ctx).err = Nil
    /\ \E key \in FlashKeys :
          LET ref == GetSession(rq[r].ctx).ref
              g == GetFlash(heap[ref], key, now)
          IN  /\ Commit([St EXCEPT !.heap[ref] = g.sess],
                        [rq EXCEPT ![r].ops = @ + 1])
              /\ flashes' = Append(flashes, FlashCall("GetFlash", heap[ref].id, key, g.val, g.ok))
    /\ UNCHANGED <<configVars, cacheVars, clientVars, now, nextId, faults, tasks, jar, started,
                   api, janitor>>

\* Two requests, whose handlers set values and regenerate the session.
NextHelpers ==
    \/ \E r \in tasks : started <= 1 /\ Start(r)
    \/ \E r \in tasks : Resolve(r)
    \/ \E r \in tasks : Create(r)
    \/ \E r \in tasks : Touch(r)
    \/ \E r \in tasks : TouchGet(r)
    \/ \E r \in tasks : TouchSet(r)
    \/ \E r \in tasks : HandlerSet(r)
    \/ \E r \in tasks : HandlerRegenerate(r)
    \/ \E r \in tasks : HandlerRegenerateSwitch(r)
    \/ \E r \in tasks : HandlerReturn(r)
    \/ \E r \in tasks : Persist(r)
    \/ Tick

SpecHelpers == InitSession /\ [][NextHelpers]_vars

(***************************************************************************)
(* Flash messages on the networked store, with two tasks that serve the     *)
(* requests, at the same time if they come so; each task has its own        *)
(* decoded copy of the session. The server answers every command. At the    *)
(* start an earlier request, whose handler was session.Flash(c, "success",  *)
(* v), is over: its session is in Redis and its cookie is with the client.  *)
(* The requests are served within the second.                               *)
(***************************************************************************)
Flashed(value) ==
    [Flash(NewSession(1, maxAge, 0), "success", value, 0) EXCEPT
        !.expiresAt = maxAge]

InitFlash ==
    /\ backend = "redis"
    /\ contextKey = "session"
    /\ maxAge = MiddlewareMaxAge(1)
    /\ now = 0
    /\ heap = << >>
    /\ mem = << >>
    /\ \E value \in FlashVals :
          /\ rds = (1 :> [val |-> Marshal(Flashed(value)), exp |-> maxAge])
          /\ flashes = <<FlashCall("Flash", 1, "success", value, TRUE)>>
    /\ nextId = 1
    /\ faults = MaxFaults
    /\ lastOp = NoOp
    /\ pending = NoSession
    /\ rq = NoTasks
    /\ tasks = Tasks
    /\ jar = {1}
    /\ started = 0
    /\ api = NoCallers
    /\ janitor = NoJanitor
    /\ NoCache

NextFlash ==
    \/ \E r \in tasks : Start(r)
    \/ \E r \in tasks : Resolve(r)
    \/ \E r \in tasks : Create(r)
    \/ \E r \in tasks : TouchGet(r)
    \/ \E r \in tasks : TouchSet(r)
    \/ \E r \in tasks : HandlerFlash(r)
    \/ \E r \in tasks : HandlerGetFlash(r)
    \/ \E r \in tasks : HandlerReturn(r)
    \/ \E r \in tasks : Persist(r)

SpecFlash == InitFlash /\ [][NextFlash]_vars

(***************************************************************************)
(* Reading a task's log.                                                    *)
(***************************************************************************)
At(L, e) == {i \in DOMAIN L : L[i].e = e}

After(L, e, i) == {j \in At(L, e) : j > i}

\* The task's Store.Get succeeded.
Loaded(r) == \E i \in At(rq[r].log, "Get") : rq[r].log[i].err = Nil

\* The store holds a record under id (a Redis key whose TTL elapsed is gone).
Holds(id) ==
    CASE backend = "memory" -> id \in DOMAIN mem
      [] backend = "redis" -> RedisLive(St, id, now)
      [] backend = "cookie" -> FALSE

(***************************************************************************)
(* C6: a request whose cookie is not empty and whose Store.Get succeeds     *)
(* gives the handler the loaded session (same id), after a touch whose      *)
(* error is dropped, and creates no session; every other request gives the  *)
(* handler a new session with a new id, saved before the handler is         *)
(* called; a task never ends on the error of Store.Get.                     *)
(***************************************************************************)
C6_Task(r) ==
    LET L == rq[r].log
        c == rq[r].cookie
    IN  /\ Cardinality(At(L, "Call")) <= 1
        /\ Cardinality(At(L, "Get")) <= 1
        /\ c.kind \in {"absent", "empty"} => At(L, "Get") = {}
        /\ \A i \in At(L, "Get") : i = 1 /\ L[i].id = c.id
        /\ \A i \in At(L, "Call") :
              IF Loaded(r)
              THEN /\ c.kind = "id"
                   /\ L[i].id = c.id
                   /\ i = 3
                   /\ L[2].e = "Touch" /\ L[2].id = c.id
              ELSE /\ L[i].id > rq[r].base
                   /\ L[i].id # c.id
                   /\ i > 1
                   /\ L[i - 1] = [L[i - 1] EXCEPT !.e = "Set", !.id = L[i].id, !.err = Nil]
                   /\ \A j \in 1..(i - 2) : L[j].e = "Get" /\ L[j].err # Nil
        /\ rq[r].pc = "handler" =>
              /\ At(L, "Call") # {}
              /\ contextKey \in DOMAIN rq[r].ctx
              /\ rq[r].ctx[contextKey] = rq[r].sess
              /\ \A i \in At(L, "Call") : heap[rq[r].sess].id = L[i].id
              /\ (Loaded(r) /\ backend = "memory" /\ c.id \in DOMAIN mem) =>
                     mem[c.id] = rq[r].sess
              /\ (~Loaded(r) /\ backend # "cookie"
                     /\ ~IsExpired(heap[rq[r].sess], now) /\ rq[r].ops = 0) =>
                     Holds(heap[rq[r].sess].id)
        /\ rq[r].pc \in {"touch", "touchSet"} => Loaded(r)
        /\ rq[r].pc \in {"persist", "done", "panicked"} =>
              /\ L # << >>
              /\ L[Len(L)].e # "Get"
              /\ Loaded(r) => At(L, "Call") # {}

C6_Resolution == \A r \in Tasks : C6_Task(r)

\* A loaded session is before its handler, its touch having failed.
C6_Witness ==
    \E r \in Tasks :
       /\ rq[r].pc = "handler"
       /\ Loaded(r)
       /\ rq[r].log[2].err # Nil

(***************************************************************************)
(* C7: if Store.Set of the session just created fails, the middleware       *)
(* returns that error, the handler is not called, and no cookie is set.     *)
(***************************************************************************)
\* The log positions of a failed Store.Set made before any handler call.
FailedCreate(L) ==
    {i \in At(L, "Set") : L[i].err # Nil /\ \A j \in At(L, "Call") : j > i}

C7_CreateFails ==
    \A r \in Tasks :
       \A i \in FailedCreate(rq[r].log) :
          /\ rq[r].pc = "done"
          /\ rq[r].result = rq[r].log[i].err
          /\ At(rq[r].log, "Call") = {}
          /\ At(rq[r].log, "Cookie") = {}
          /\ i = Len(rq[r].log)

C7_Witness ==
    \E r \in Tasks :
       \E i \in FailedCreate(rq[r].log) : rq[r].log[i].err = ErrBackend

(***************************************************************************)
(* C8: after the handler returns, with or without an error, the middleware  *)
(* sets the session's expiry to now + MaxAge and calls Store.Set; if the    *)
(* save succeeds it then sets the session cookie and returns the handler's  *)
(* result; if the save fails it sets no cookie and returns the save error.  *)
(***************************************************************************)
C8_Task(r) ==
    LET L == rq[r].log IN
    \A i \in At(L, "Return") :
       /\ rq[r].pc \in {"persist", "done"}
       /\ rq[r].pc = "persist" => i = Len(L)
       /\ rq[r].pc = "done" =>
             /\ Len(L) > i
             /\ L[i + 1].e = "Set"
             /\ L[i + 1].exp = L[i + 1].t + maxAge
             /\ \A c \in At(L, "Call") : L[i + 1].id = L[c].id
             /\ IF L[i + 1].err = Nil
                THEN /\ Len(L) = i + 2
                     /\ L[i + 2] = EvCookie(L[i + 1].id, maxAge)
                     /\ rq[r].result = L[i].err
                     /\ backend # "cookie" /\ maxAge > 0 => Holds(L[i + 1].id) \/ now > L[i + 1].exp
                ELSE /\ Len(L) = i + 1
                     /\ rq[r].result = L[i + 1].err

C8_Persist ==
    /\ \A r \in Tasks : C8_Task(r)
    /\ \A r \in Tasks : (rq[r].pc = "done" /\ At(rq[r].log, "Call") # {}) =>
                            At(rq[r].log, "Return") # {}

\* A handler returned an error, the session was saved and the cookie set.
C8_Witness ==
    \E r \in Tasks :
       /\ rq[r].pc = "done"
       /\ rq[r].result = ErrHandler
       /\ At(rq[r].log, "Cookie") # {}

(***************************************************************************)
(* C9: if the request is aborted before the handler returns, the            *)
(* middleware does not call Store.Set after the handler and sets no cookie. *)
(***************************************************************************)
C9_AbortedNotPersisted ==
    \A r \in Tasks :
       rq[r].aborted =>
          \A i \in At(rq[r].log, "Return") :
             /\ After(rq[r].log, "Set", i) = {}
             /\ After(rq[r].log, "Cookie", i) = {}

(***************************************************************************)
(* C10: when the handler calls DestroySession, the session is deleted from  *)
(* the store and a clearing cookie is set, and once the request is over     *)
(* the store holds no record under the destroyed id and no cookie carrying  *)
(* that id was set after the clearing cookie.                               *)
(***************************************************************************)
C10_Destroyed ==
    \A r \in Tasks :
       LET L == rq[r].log IN
       \A i \in At(L, "Destroy") :
          (L[i].err = Nil /\ rq[r].pc = "done") =>
             /\ ~Holds(L[i].id)
             /\ L[i + 1] = EvCookie(NoId, -1)
             /\ \A j \in After(L, "Cookie", i + 1) : L[j].id # L[i].id

(***************************************************************************)
(* The cache middleware (cache/middleware.go). One request task at a time;  *)
(* between two requests the application uses the cache itself.              *)
(***************************************************************************)
\* lines 23-32: DefaultCacheConfig, and two configurations an application
\* writes itself
DefaultCacheConfig == [ttl |-> 1, onlyStatus |-> {200}, skipFunc |-> FALSE]

CacheConfigs ==
    {DefaultCacheConfig,
     [ttl |-> 0, onlyStatus |-> {200, 404}, skipFunc |-> TRUE],
     [ttl |-> 1, onlyStatus |-> {0, 200}, skipFunc |-> FALSE]}

\* lines 28-30 and 40-44: the default KeyFunc
KeyFunc(method, path) == method \o ":" \o path

CacheKeys == {KeyFunc(m, p) : m \in {"GET", "HEAD"}, p \in Paths}

\* line 53: config.SkipFunc != nil && config.SkipFunc(c); the SkipFunc of
\* the model skips the requests that ask for no cache
Skipped(config, req) == config.skipFunc /\ req.nocache

\* A middleware that looks every method up in the cache.
CacheableAnyMethod(method) == TRUE

\* line 58: c.Method() != "GET" && c.Method() != "HEAD" passes through
Cacheable(method) == ~(method # "GET" /\ method # "HEAD")

\* What a handler writes to the context (c.Status(s).JSON(body)) and returns.
HandlerResponses ==
    {CachedResponse(st, JsonHeaders, "a") : st \in {200, 404}}

\* c.SetHeader(k, v)
SetHeader(headers, k, v) ==
    [h \in DOMAIN headers \cup {k} |-> IF h = k THEN v ELSE headers[h]]

RECURSIVE SetHeaders(_, _)
SetHeaders(headers, more) ==
    IF DOMAIN more = {} THEN headers
    ELSE LET k == CHOOSE h \in DOMAIN more : TRUE IN
         SetHeaders(SetHeader(headers, k, more[k]),
                    [h \in DOMAIN more \ {k} |-> more[h]])

\* A middleware that replays the status and the body, not the headers.
ReplayWithoutHeaders(resp, cached) ==
    [status |-> cached.status, headers |-> resp.headers, body |-> cached.body]

\* lines 69-74: the cache hit: the cached headers, status and body are
\* written to the response
Replay(resp, cached) ==
    [status |-> cached.status,
     headers |-> SetHeaders(resp.headers, cached.headers),
     body |-> cached.body]

\* lines 79-82: recorder := &responseRecorder{Context: c, headers: make(...)};
\* line 84 hands recorder.Context, the request's own context, to the handler,
\* and nothing else writes the recorder's fields
Recorder == [status |-> 0, headers |-> NoHeaders, body |-> Nil]

\* lines 90-96
ShouldCache(config, recorder) == \E status \in config.onlyStatus : recorder.status = status

\* The request is over; it stays in creq until the next one begins.
Served(req, resp, result) ==
    [req EXCEPT !.pc = "done", !.resp = resp, !.result = result]

\* next(c): the handler writes its response to the context
Called(req, h, e) ==
    [req EXCEPT !.calls = @ + 1, !.hresp = h, !.herr = e]

\* Whether the request asks for no cache; only a SkipFunc reads it.
NoCacheAsked(config) == IF config.skipFunc THEN BOOLEAN ELSE {FALSE}

\* What is remembered of the request before: what it was and what it got.
Previous(req) ==
    [CacheIdle EXCEPT !.pc = req.pc, !.method = req.method, !.key = req.key,
                      !.calls = req.calls, !.resp = req.resp, !.herr = req.herr,
                      !.cold = req.cold, !.fresh = req.fresh, !.t = req.t]

\* lines 51-63: a request arrives
CacheBegin ==
    /\ creq.pc \in {"idle", "done"}
    /\ started < MaxRequests
    /\ started' = started + 1
    /\ cprev' = Previous(creq)
    /\ \E m \in Methods, p \in Paths, nc \in NoCacheAsked(cacheConfig) :
          LET req == [CacheIdle EXCEPT !.method = m, !.path = p, !.nocache = nc,
                                       !.key = KeyFunc(m, p),
                                       !.cold = (cache = << >>),
                                       !.fresh = touched, !.t = now]
          IN  creq' = [req EXCEPT !.pc = IF Skipped(cacheConfig, req) THEN "next"
                                         ELSE IF ~Cacheable(m) THEN "next"
                                         ELSE "get"]
    /\ UNCHANGED <<configVars, storeVars, clientVars, now, nextId, faults,
                   rq, tasks, flashes, api, janitor, jar, cache, cacheConfig, touched>>

\* lines 54 and 59: return next(c)
CachePassThrough ==
    /\ creq.pc = "next"
    /\ \E h \in HandlerResponses, e \in {Nil, ErrHandler} :
          creq' = Served(Called(creq, h, e), h, e)
    /\ UNCHANGED <<configVars, storeVars, clientVars, sessVars, now, nextId, faults,
                   cache, cacheConfig, cprev, touched>>

\* A middleware that takes a Get the backend failed for a hit.
HitUnlessMiss(err) == err \in {Nil, ErrBackend}

\* line 68: if err == nil, the response is served from the cache
Hit(err) == err = Nil

\* lines 66-75: config.Cache.Get(key, &cached), and the hit
CacheLookup ==
    /\ creq.pc = "get"
    /\ \E ok \in Answers :
          LET g == IF ok THEN CacheGet(cache, creq.key)
                   ELSE [err |-> ErrBackend, val |-> NoResponse]
              req == [creq EXCEPT !.gets = @ + 1, !.gerr = g.err,
                                  !.seen = IF creq.key \in DOMAIN cache
                                           THEN cache[creq.key].val ELSE JsonNull]
          IN  /\ IF Hit(g.err)
                 THEN creq' = Served([req EXCEPT !.hit = TRUE],
                                     Replay(req.resp, g.val), Nil)
                 ELSE creq' = [req EXCEPT !.pc = "miss"]
              /\ faults' = faults + Injected(ok)
    /\ UNCHANGED <<configVars, storeVars, clientVars, sessVars, now, nextId,
                   cache, cacheConfig, cprev, touched>>

\* lines 77-108: the miss
CacheMiss ==
    /\ creq.pc = "miss"
    /\ \E h \in HandlerResponses, e \in {Nil, ErrHandler} :
          LET recorder == Recorder
              req == Called(creq, h, e)
          IN  IF e # Nil
              THEN /\ creq' = Served(req, h, e)
                   /\ cache' = cache
                   /\ faults' = faults
              ELSE IF ShouldCache(cacheConfig, recorder) /\ recorder.body # Nil
              THEN \* line 105: the error of config.Cache.Set is dropped
                   /\ creq' = Served([req EXCEPT !.sets = @ + 1], h, Nil)
                   /\ \E ok \in Answers :
                         /\ cache' = IF ok
                                     THEN CacheSet(cache, creq.key,
                                                   MarshalResponse(CachedResponse(
                                                       recorder.status, recorder.headers,
                                                       recorder.body)),
                                                   cacheConfig.ttl, now)
                                     ELSE cache
                         /\ faults' = faults + Injected(ok)
              ELSE /\ creq' = Served(req, h, Nil)
                   /\ cache' = cache
                   /\ faults' = faults
    /\ UNCHANGED <<configVars, storeVars, clientVars, sessVars, now, nextId,
                   cacheConfig, cprev, touched>>

\* json.Marshal(data), line 162
JsonText(v) == IF v.t = "string" THEN "\"1\"" ELSE "1"

\* lines 161-176: CacheJSON(cache, key, data, ttl)
AppCacheJSON ==
    /\ creq.pc \in {"idle", "done"}
    /\ \E key \in CacheKeys, data \in HandlerVals, ttl \in {1} :
          cache' = CacheSet(cache, key,
                            MarshalResponse(CachedResponse(200, JsonHeaders,
                                                           JsonText(data))),
                            ttl, now)
    /\ touched < MaxAppOps
    /\ touched' = touched + 1
    /\ UNCHANGED <<configVars, storeVars, clientVars, sessVars, now, nextId, faults,
                   cacheConfig, creq, cprev>>

\* RedisCache.Set(key, value, 0) of a value that is not a CachedResponse
AppSet ==
    /\ creq.pc \in {"idle", "done"}
    /\ \E key \in CacheKeys, js \in {JsonNumber, JsonUser} :
          cache' = CacheSet(cache, key, js, 0, now)
    /\ touched < MaxAppOps
    /\ touched' = touched + 1
    /\ UNCHANGED <<configVars, storeVars, clientVars, sessVars, now, nextId, faults,
                   cacheConfig, creq, cprev>>

\* lines 136-143: Invalidate(cache, key)
AppInvalidate ==
    /\ creq.pc \in {"idle", "done"}
    /\ \E key \in CacheKeys : cache' = CacheDelete(cache, key)
    /\ touched < MaxAppOps
    /\ touched' = touched + 1
    /\ UNCHANGED <<configVars, storeVars, clientVars, sessVars, now, nextId, faults,
                   cacheConfig, creq, cprev>>

InitCache ==
    /\ backend = "redis"
    /\ contextKey = "session"
    /\ maxAge = MaxAge24h
    /\ now = 0
    /\ heap = << >>
    /\ mem = << >>
    /\ rds = << >>
    /\ nextId = 0
    /\ faults = MaxFaults
    /\ lastOp = NoOp
    /\ pending = NoSession
    /\ rq = NoTasks
    /\ tasks = {}
    /\ jar = {}
    /\ started = 0
    /\ api = NoCallers
    /\ janitor = NoJanitor
    /\ flashes = << >>
    /\ cache = << >>
    /\ cacheConfig \in CacheConfigs
    /\ creq = CacheIdle
    /\ cprev = CacheIdle
    /\ touched = 0

NextCache ==
    \/ CacheBegin
    \/ CachePassThrough
    \/ CacheLookup
    \/ CacheMiss
    \/ AppCacheJSON
    \/ AppSet
    \/ AppInvalidate
    \/ Tick

SpecCache == InitCache /\ [][NextCache]_vars

(***************************************************************************)
(* Reading the request served last (creq, once it is done) and the one      *)
(* before it (cprev).                                                       *)
(***************************************************************************)
\* The JSON text of a CachedResponse.
IsCachedResponse(js) ==
    /\ js.j = "object"
    /\ DOMAIN js.f = {"status", "headers", "body"}

\* The request is one the middleware looks up: GET or HEAD, not skipped.
LookedUp(req) ==
    /\ req.method \in {"GET", "HEAD"}
    /\ ~(cacheConfig.skipFunc /\ req.nocache)

(***************************************************************************)
(* C2: on a GET route with no skip predicate, starting from an empty        *)
(* cache, the first request runs the handler and stores the response        *)
(* (status 200); a second request with the same key within the ttl gets     *)
(* the same status, headers and body and does not run the handler: the two  *)
(* requests run the handler exactly once.                                   *)
(***************************************************************************)
\* creq is the second of two such requests: no cache call of the
\* application and no tick of the clock since the first began.
SecondOfTwo ==
    /\ creq.pc = "done" /\ cprev.pc = "done"
    /\ ~cacheConfig.skipFunc
    /\ cprev.method = "GET" /\ creq.method = "GET"
    /\ creq.key = cprev.key
    /\ cprev.cold
    /\ cprev.herr = Nil /\ cprev.resp.status = 200
    /\ creq.fresh = cprev.fresh
    /\ creq.t = cprev.t

C2_SecondServedFromCache ==
    SecondOfTwo =>
        /\ cprev.calls = 1
        /\ creq.calls = 0
        /\ cprev.calls + creq.calls = 1
        /\ creq.resp = cprev.resp

(***************************************************************************)
(* C3: whenever the cache holds a Cached Response under the key of a GET    *)
(* or HEAD request that is not skipped, the middleware writes exactly the   *)
(* stored headers, status and body to the response and the handler is not   *)
(* called.                                                                  *)
(***************************************************************************)
C3_HitReplays ==
    (creq.pc = "done" /\ LookedUp(creq)) =>
        /\ creq.gets = 1
        /\ IsCachedResponse(creq.seen) =>
              /\ creq.hit
              /\ creq.calls = 0
              /\ creq.resp.status = creq.seen.f.status
              /\ creq.resp.headers = creq.seen.f.headers
              /\ creq.resp.body = creq.seen.f.body.b64
              /\ creq.sets = 0

\* A HEAD request was answered with what CacheJSON had stored.
C3_Witness ==
    /\ creq.pc = "done"
    /\ creq.method = "HEAD"
    /\ IsCachedResponse(creq.seen)
    /\ creq.resp = CachedResponse(200, JsonHeaders, JsonText(GoInt))

(***************************************************************************)
(* C4: for a request whose method is neither GET nor HEAD, and for a        *)
(* request the skip predicate is true of, the middleware calls the handler  *)
(* exactly once, returns its result unchanged, and neither reads nor        *)
(* writes the cache: no step of such a request changes the cache.           *)
(***************************************************************************)
PassesThrough(req) ==
    \/ req.method \notin {"GET", "HEAD"}
    \/ cacheConfig.skipFunc /\ req.nocache

C4_Served ==
    (creq.pc = "done" /\ PassesThrough(creq)) =>
        /\ creq.calls = 1
        /\ creq.result = creq.herr
        /\ creq.resp = creq.hresp
        /\ creq.gets = 0
        /\ creq.sets = 0

\* While such a request runs the cache changes only by the server's expiry.
C4_Frame ==
    (creq.pc \notin {"idle", "done"} /\ PassesThrough(creq) /\ now' = now) =>
        cache' = cache

C4_PassThrough == [](C4_Served) /\ [][C4_Frame]_vars

\* A skipped GET whose key the cache holds, the handler returning an error.
C4_Witness ==
    /\ creq.pc = "done"
    /\ creq.method = "GET"
    /\ cacheConfig.skipFunc /\ creq.nocache
    /\ creq.key \in DOMAIN cache
    /\ creq.result = ErrHandler

(***************************************************************************)
(* C5: on a miss the middleware stores a Cached Response under the key if   *)
(* and only if the handler returned no error and the status it set is in    *)
(* the allow-list; if the handler returns an error the cache is left        *)
(* unchanged and the middleware returns that error.                         *)
(***************************************************************************)
MissServed == creq.pc = "done" /\ creq.gets = 1 /\ ~creq.hit

C5_StoredIffAllowed ==
    MissServed =>
        /\ (creq.sets = 1) <=>
               (creq.herr = Nil /\ creq.hresp.status \in cacheConfig.onlyStatus)
        /\ creq.herr # Nil => (creq.sets = 0 /\ creq.result = creq.herr)

(***************************************************************************)
(* One call on a server-side store that holds a table of records. The      *)
(* records were made at time 0 by NewSession and Session.Set and saved by   *)
(* Set, or on the networked store by SetWithTTL; the clock has moved on     *)
(* to `now` and the Redis server has dropped the keys whose TTL elapsed.    *)
(***************************************************************************)
ServerBackends == {"memory", "redis"}

MaxRecords == 2

TableIds == 1..MaxRecords
TableAges == 0..MaxTime

\* NewSession(age), and Session.Set("k", 1) if wanted, at time 0
Made(id, age, set) ==
    IF set THEN SessionSet(NewSession(id, age, 0), "k", GoInt, 0)
    ELSE NewSession(id, age, 0)

\* What is chosen for a record: its max-age, whether a value was set, and
\* the time at which the server drops the key (Set: the session's expiry)
TableChoices == [age : TableAges, set : BOOLEAN, exp : 0..MaxTime]

InitTable ==
    /\ backend \in ServerBackends
    /\ contextKey = "session"
    /\ maxAge = MaxAge24h
    /\ now \in 0..MaxTime
    /\ nextId = MaxRecords
    /\ faults = MaxFaults
    /\ lastOp = NoOp
    /\ pending = NoSession
    /\ rq = NoTasks
    /\ tasks = {}
    /\ jar = {}
    /\ started = 0
    /\ api = NoCallers
    /\ janitor = NoJanitor
    /\ flashes = << >>
    /\ NoCache
    /\ \E P \in SUBSET TableIds :
          \E f \in [P -> TableChoices] :
             /\ \A i \in P : f[i].exp >= now
             /\ backend = "memory" => \A i \in P : f[i].exp = MaxTime
             /\ heap = IF backend = "memory"
                       THEN [i \in P |-> Made(i, f[i].age, f[i].set)]
                       ELSE << >>
             /\ mem = IF backend = "memory" THEN [i \in P |-> i] ELSE << >>
             /\ rds = IF backend = "redis"
                      THEN [i \in P |-> [val |-> Marshal(Made(i, f[i].age, f[i].set)),
                                         exp |-> f[i].exp]]
                      ELSE << >>

\* The result of a call becomes the state; what the call returned stays
\* reachable through lastOp.ref.
Called1(res, op, arg) ==
    /\ heap' = res.st.heap
    /\ mem' = res.st.mem
    /\ rds' = res.st.rds
    /\ lastOp' = Op(op, arg, res.err, res.ref, NoSession)
    /\ UNCHANGED <<configVars, cacheVars, sessVars, now, nextId, faults, pending>>

TableGet ==
    /\ lastOp = NoOp
    /\ \E id \in TableIds :
          Called1(StoreGet(backend, St, IdStr(id), now, TRUE), "Get", IdStr(id))

\* store.Set(s) of a session made at time 0
TableSet ==
    /\ lastOp = NoOp
    /\ \E id \in TableIds, age \in TableAges, set \in BOOLEAN :
          LET res == StoreSet(backend, Alloc(St, Made(id, age, set)),
                              NewRef(heap), now, TRUE)
          IN  Called1(Result(res.st, res.err, NewRef(heap)), "Set", IdStr(id))

TableTouch ==
    /\ lastOp = NoOp
    /\ \E id \in TableIds :
          Called1(StoreTouch(backend, St, id, now, TRUE, TRUE), "Touch", IdStr(id))

TableCleanup ==
    /\ lastOp = NoOp
    /\ Called1(StoreCleanup(backend, St, now), "Cleanup", EmptyStr)

NextTable ==
    \/ TableGet
    \/ TableSet
    \/ TableTouch
    \/ TableCleanup

SpecTable == InitTable /\ [][NextTable]_vars

(***************************************************************************)
(* Reading the table before a call (unprimed) and after it (primed).        *)
(***************************************************************************)
\* The backend has a record for id.
HasRecord(id) ==
    IF backend = "memory" THEN id \in DOMAIN mem ELSE id \in DOMAIN rds

\* The record as the backend keeps it: the Session, or its JSON text.
RecordOf(id) == IF backend = "memory" THEN heap[mem[id]] ELSE rds[id].val

RecordAfter(id) == IF backend = "memory" THEN heap'[mem'[id]] ELSE rds'[id].val

RecordsAfter == IF backend = "memory" THEN DOMAIN mem' ELSE DOMAIN rds'

Records == IF backend = "memory" THEN DOMAIN mem ELSE DOMAIN rds

\* The step is the call op of the client.
Calls(op) == lastOp = NoOp /\ lastOp'.op = op

(***************************************************************************)
(* C14: on the in-process and the networked store, Get(id) returns          *)
(* NotFound exactly when the backend has no record for id, Expired exactly  *)
(* when there is a record and the time is past its expiry, and the stored   *)
(* session otherwise.                                                       *)
(***************************************************************************)
C14_Get ==
    Calls("Get") =>
        LET id == lastOp'.arg.id
            err == lastOp'.err
        IN  /\ (err = ErrSessionNotFound) <=> ~HasRecord(id)
            /\ (err = ErrSessionExpired) <=>
                   (HasRecord(id) /\ now > RecordOf(id).expiresAt)
            /\ (err = Nil) <=> (HasRecord(id) /\ now <= RecordOf(id).expiresAt)
            /\ err = Nil =>
                  /\ lastOp'.ref \in DOMAIN heap'
                  /\ backend = "memory" =>
                        /\ lastOp'.ref = mem[id]
                        /\ heap'[lastOp'.ref] = heap[mem[id]]
                  /\ backend = "redis" =>
                        /\ Marshal(heap'[lastOp'.ref]) = rds[id].val
                        /\ heap'[lastOp'.ref].id = id

C14_Load == [][C14_Get]_vars

\* The networked store answered Expired: the key outlived the session.
C14_Witness ==
    /\ backend = "redis"
    /\ lastOp.op = "Get"
    /\ lastOp.err = ErrSessionExpired

(***************************************************************************)
(* C15: on the networked store, Set(S) with S.ExpiresAt - now <= 0 fails    *)
(* with Expired and writes nothing (a record already under S.ID stays as    *)
(* it was); with a positive remainder the record is written with a TTL      *)
(* equal to the remainder.                                                  *)
(***************************************************************************)
C15_Set ==
    (backend = "redis" /\ Calls("Set")) =>
        LET s == heap'[lastOp'.ref]
            ttl == s.expiresAt - now
        IN  IF ttl <= 0
            THEN /\ lastOp'.err = ErrSessionExpired
                 /\ rds' = rds
            ELSE /\ lastOp'.err = Nil
                 /\ DOMAIN rds' = DOMAIN rds \cup {s.id}
                 /\ rds'[s.id].val = Marshal(s)
                 /\ rds'[s.id].exp - now = ttl
                 /\ \A i \in DOMAIN rds \ {s.id} : rds'[i] = rds[i]

C15_SaveTTL == [][C15_Set]_vars

\* An expired session was refused and the record under its id is still there.
C15_Witness ==
    /\ backend = "redis"
    /\ lastOp.op = "Set"
    /\ lastOp.err = ErrSessionExpired
    /\ lastOp.arg.id \in DOMAIN rds
    /\ rds[lastOp.arg.id].val # Marshal(heap[lastOp.ref])

(***************************************************************************)
(* C16: Touch(id) on a server-side store returns NotFound when there is no  *)
(* record for id and changes nothing; when there is a record it updates     *)
(* only the record's UpdatedAt: id, data, creation time and expiry stay,    *)
(* and so does every other record.                                          *)
(***************************************************************************)
C16_Touch ==
    Calls("Touch") =>
        LET id == lastOp'.arg.id IN
        IF ~HasRecord(id)
        THEN /\ lastOp'.err = ErrSessionNotFound
             /\ mem' = mem /\ rds' = rds /\ heap' = heap
        ELSE /\ lastOp'.err = Nil
             /\ RecordsAfter = Records
             /\ RecordAfter(id) = [RecordOf(id) EXCEPT !.updatedAt = now]
             /\ \A j \in Records \ {id} : RecordAfter(j) = RecordOf(j)

C16_TouchFrame == [][C16_Touch]_vars

(***************************************************************************)
(* C17: after Cleanup on the in-process store the table holds no record     *)
(* whose expiry had passed, and every record that was not expired is still  *)
(* there, unchanged.                                                        *)
(***************************************************************************)
C17_Cleanup ==
    (backend = "memory" /\ Calls("Cleanup")) =>
        /\ lastOp'.err = Nil
        /\ \A i \in DOMAIN mem' : ~(now > heap'[mem'[i]].expiresAt)
        /\ DOMAIN mem' \subseteq DOMAIN mem
        /\ \A i \in DOMAIN mem :
              now <= heap[mem[i]].expiresAt =>
                  /\ i \in DOMAIN mem'
                  /\ mem'[i] = mem[i]
                  /\ heap'[mem[i]] = heap[mem[i]]

C17_Sweep == [][C17_Cleanup]_vars

\* One record was swept and one, which expires at this instant, was kept.
C17_Witness ==
    /\ backend = "memory"
    /\ lastOp.op = "Cleanup"
    /\ Cardinality(DOMAIN heap) = 2
    /\ \E i \in DOMAIN mem : DOMAIN mem = {i} /\ heap[mem[i]].expiresAt = now

(***************************************************************************)
(* Reading a request of the helpers' handlers before and after a step.      *)
(***************************************************************************)
\* The store holds a record under id after the step.
HeldAfter(id) ==
    CASE backend = "memory" -> id \in DOMAIN mem'
      [] backend = "redis" -> id \in DOMAIN rds' /\ now' <= rds'[id].exp
      [] backend = "cookie" -> FALSE

\* The session the request's handle (the context) refers to.
Handle(task) == heap[task.ctx[contextKey]]

\* RegenerateSession has saved the new session and not yet deleted the old.
Regenerating(r) == rq[r].pc = "regenerate"

(***************************************************************************)
(* C11: RegenerateSession saves the new session before it deletes the old   *)
(* one. Between the two store calls the handle still refers to the old      *)
(* session, whose record the save left in place, and the new record is      *)
(* held; when the old one is deleted the handle and the cookie are switched *)
(* to the new id, whose record is held; if the save fails, the store, the   *)
(* handle and the cookies are as they were and the error is returned.       *)
(***************************************************************************)
C11_Between ==
    \A r \in Tasks :
       Regenerating(r) =>
          /\ rq[r].ctx[contextKey] # rq[r].tmp
          /\ Handle(rq[r]).id # heap[rq[r].tmp].id
          /\ backend # "cookie" =>
                /\ Holds(heap[rq[r].tmp].id) \/ now > heap[rq[r].tmp].expiresAt
                /\ Holds(Handle(rq[r]).id) \/ now > Handle(rq[r]).expiresAt

C11_Step ==
    \A r \in Tasks :
       LET t == rq[r]
           u == rq'[r]
       IN  /\ (t.pc = "handler" /\ u.pc = "regenerate") =>
                 /\ backend # "cookie" => HeldAfter(heap'[u.tmp].id)
                 /\ Holds(Handle(t).id) => HeldAfter(Handle(t).id)
                 /\ \A i \in DOMAIN mem : i \in DOMAIN mem' /\ mem'[i] = mem[i]
                 /\ \A i \in DOMAIN rds : i \in DOMAIN rds' /\ rds'[i] = rds[i]
                 /\ u.ctx = t.ctx
                 /\ At(u.log, "Cookie") = At(t.log, "Cookie")
           /\ (t.pc = "regenerate" /\ u.pc = "handler") =>
                 /\ u.ctx[contextKey] = t.tmp
                 /\ heap'[t.tmp] = heap[t.tmp]
                 /\ Holds(heap[t.tmp].id) => HeldAfter(heap[t.tmp].id)
                 /\ u.log[Len(u.log)] = EvCookie(heap[t.tmp].id, maxAge)
                 /\ After(u.log, "Set", Len(t.log)) = {}
           /\ (t.pc = "handler" /\ u.pc = "persist"
                 /\ At(u.log, "Set") # At(t.log, "Set")) =>
                 /\ u.log[Len(t.log) + 1].err # Nil
                 /\ u.herr = u.log[Len(t.log) + 1].err
                 /\ u.log[Len(u.log)] = Ev("Return", NoId, u.herr)
                 /\ mem' = mem
                 /\ rds' = rds
                 /\ u.ctx = t.ctx
                 /\ At(u.log, "Cookie") = At(t.log, "Cookie")

C12_Step ==
    \A r \in Tasks :
       LET t == rq[r]
           u == rq'[r]
           old == Handle(t)
           new == heap[t.tmp]
       IN  (t.pc = "regenerate" /\ u.pc = "handler") =>
              /\ new.id # old.id
              /\ new.data = old.data
              /\ u.ctx[contextKey] = t.tmp
              /\ u.log[Len(u.log)] = EvCookie(new.id, maxAge)
              /\ backend # "cookie" =>
                    /\ HeldAfter(new.id) \/ now > new.expiresAt
                    /\ ~HeldAfter(old.id)

C12_Saved ==
    \A r \in Tasks :
       LET L == rq[r].log IN
       \A i \in At(L, "Delete") :
          \A j \in After(L, "Set", i) :
             /\ L[j].id = L[i + 1].id
             /\ L[j].id # L[i].id

C12_Regenerated == [](C12_Saved) /\ [][C12_Step]_vars

(***************************************************************************)
(* C13: a flash message is read at most once: once GetFlash(k) has          *)
(* returned (v, true) on a session, every further GetFlash(k) on that       *)
(* session, in the same request or in a later one, returns false until      *)
(* Flash(k, _) is called again.                                             *)
(***************************************************************************)
\* The calls on the session and key of call j that were made before it.
Earlier(j) ==
    {i \in 1..(j - 1) : /\ flashes[i].id = flashes[j].id
                        /\ flashes[i].key = flashes[j].key}

C13_AtMostOnce ==
    \A j \in DOMAIN flashes :
       \A i \in Earlier(j) :
          (/\ flashes[i].e = "GetFlash" /\ flashes[i].ok
           /\ flashes[j].e = "GetFlash"
           /\ \A m \in Earlier(j) : m > i => flashes[m].e # "Flash") =>
              ~flashes[j].ok

(***************************************************************************)
(* C18: with the cookie store, the session travels in the cookie: a request *)
(* that presents, before MaxAge has elapsed, the cookie an earlier request  *)
(* was issued reaches its handler with the session of that cookie, under    *)
(* the same id.                                                             *)
(***************************************************************************)
\* Task r carries a cookie the client was sent, and its handler is running.
Returning(r) ==
    /\ rq[r].pc = "handler"
    /\ rq[r].cookie.kind = "id"
    /\ rq[r].cookie.id \in jar

C18_CarriedInCookie ==
    \A r \in Tasks :
       (backend = "cookie" /\ maxAge > 0 /\ now = 0 /\ Returning(r)) =>
          /\ contextKey \in DOMAIN rq[r].ctx
          /\ Handle(rq[r]).id = rq[r].cookie.id

(***************************************************************************)
(* C19: a session made by NewSession(maxAge), for every MaxAge the          *)
(* configuration can pass, is not expired at the instant of its creation.   *)
(***************************************************************************)
C19_FreshNotExpired ==
    \A x \in DOMAIN heap :
       heap[x].createdAt = now => ~(now > heap[x].expiresAt)

(***************************************************************************)
(* C20: in every reachable state every session, whether just created,       *)
(* regenerated, or given a new expiry by the save after the handler, has    *)
(* an expiry that is not before its creation time.                          *)
(***************************************************************************)
C20_ExpiryNotBeforeCreation ==
    /\ \A x \in DOMAIN heap : heap[x].expiresAt >= heap[x].createdAt
    /\ \A i \in DOMAIN rds : rds[i].val.expiresAt >= rds[i].val.createdAt

(***************************************************************************)
(* C29: when Get(id) finds a record whose expiry has passed it deletes the  *)
(* record: after Get has returned Expired the backend holds no record for   *)
(* id, on the in-process store as on the networked one.                     *)
(***************************************************************************)
C29_Get ==
    (Calls("Get") /\ lastOp'.err = ErrSessionExpired) =>
        lastOp'.arg.id \notin RecordsAfter

C29_ExpiredDeleted == [][C29_Get]_vars

(***************************************************************************)
(* The cache store called directly (cache/redis.go): callers that set keys  *)
(* and count on them. Each of these calls is one Redis command.             *)
(***************************************************************************)
CounterKeys == {"hits"}
SetTTLs == {-1, 0, 1}
Amounts == {2}

ErrNotInteger == "value is not an integer"

\* The text the server keeps for a counter: a decimal integer.
JsonInteger(n) == [j |-> "integer", f |-> n]

\* A counter that forgets what the key held.
RedisIncrByFresh(kv, key, n) ==
    [kv |-> [k \in DOMAIN kv \cup {key} |->
                IF k = key THEN [val |-> JsonInteger(n), exp |-> NoExpiry] ELSE kv[k]],
     val |-> n, err |-> Nil]

\* The server's INCRBY key n, which INCR and DECR are cases of: an absent
\* key counts from 0 and gets no expiry, a key that holds an integer keeps
\* its expiry, any other value is an error
RedisIncrBy(kv, key, n) ==
    IF key \notin DOMAIN kv
    THEN [kv |-> [k \in DOMAIN kv \cup {key} |->
                     IF k = key THEN [val |-> JsonInteger(n), exp |-> NoExpiry]
                     ELSE kv[k]],
          val |-> n, err |-> Nil]
    ELSE IF kv[key].val.j # "integer"
    THEN [kv |-> kv, val |-> 0, err |-> ErrNotInteger]
    ELSE [kv |-> [kv EXCEPT ![key].val = JsonInteger(@.f + n)],
          val |-> kv[key].val.f + n, err |-> Nil]

\* A counting call of caller c: one command, which the server may not answer.
Count(c, op, key, n, ok) ==
    LET res == IF ok THEN RedisIncrBy(cache, key, n)
               ELSE [kv |-> cache, val |-> 0, err |-> ErrBackend]
    IN  /\ api[c].pc = "idle"
        /\ touched < MaxCalls
        /\ touched' = touched + 1
        /\ cache' = res.kv
        /\ api' = [api EXCEPT ![c].log = Append(@, ApiEv(op, key, n, res.val, res.err))]
        /\ faults' = faults + Injected(ok)
        /\ UNCHANGED <<configVars, storeVars, clientVars, webVars, janitor, now, nextId>>

\* part_003 lines 186-189: Increment(key) is client.Incr
ApiIncrement(c) ==
    \E key \in CounterKeys, ok \in Answers : Count(c, "Increment", key, 1, ok)

\* part_003 lines 192-195: Decrement(key) is client.Decr
ApiDecrement(c) ==
    \E key \in CounterKeys, ok \in Answers : Count(c, "Decrement", key, -1, ok)

\* part_003 lines 198-201: IncrementBy(key, value) is client.IncrBy
ApiIncrementBy(c) ==
    \E key \in CounterKeys, n \in Amounts, ok \in Answers :
       Count(c, "IncrementBy", key, n, ok)

\* part_003 lines 116-125: Set(key, value, ttl) marshals the value and
\* returns what client.Set returns
ApiSet(c) ==
    /\ api[c].pc = "idle"
    /\ touched < MaxCalls
    /\ touched' = touched + 1
    /\ \E key \in CounterKeys, ttl \in SetTTLs, ok \in Answers :
          /\ cache' = IF ok THEN CacheSet(cache, key, JsonUser, ttl, now) ELSE cache
          /\ api' = [api EXCEPT ![c].log =
                        Append(@, ApiEv("Set", key, ttl, 0,
                                        IF ok THEN Nil ELSE ErrBackend))]
          /\ faults' = faults + Injected(ok)
    /\ UNCHANGED <<configVars, storeVars, clientVars, webVars, janitor, now, nextId>>

\* A Redis server, an empty cache and the callers of one RedisCache.
InitApi ==
    /\ backend = "redis"
    /\ contextKey = "session"
    /\ maxAge = MaxAge24h
    /\ now = 0
    /\ heap = << >>
    /\ mem = << >>
    /\ rds = << >>
    /\ nextId = 0
    /\ faults = 0
    /\ lastOp = NoOp
    /\ pending = NoSession
    /\ rq = NoTasks
    /\ tasks = {}
    /\ jar = {}
    /\ started = 0
    /\ flashes = << >>
    /\ api = NoApi
    /\ janitor = NoJanitor
    /\ NoCache

NextKV ==
    \/ \E c \in Callers : ApiIncrement(c)
    \/ \E c \in Callers : ApiDecrement(c)
    \/ \E c \in Callers : ApiIncrementBy(c)
    \/ \E c \in Callers : ApiSet(c)
    \/ Tick

SpecKV == InitApi /\ [][NextKV]_vars

\* Every call the callers have finished, as pairs of caller and position.
Finished == {ci \in Callers \X (1..MaxCalls) : ci[2] <= Len(api[ci[1]].log)}
Event(ci) == api[ci[1]].log[ci[2]]

(***************************************************************************)
(* C21: Set(key, value, ttl) with ttl <= 0 is rejected as a caller error:   *)
(* it returns an error (and leaves the cache as it was, so that no entry    *)
(* without expiry is created by Set).                                       *)
(***************************************************************************)
C21_NonPositiveTTLRejected ==
    \A ci \in Finished :
       (Event(ci).op = "Set" /\ Event(ci).arg <= 0) => Event(ci).err # Nil

(***************************************************************************)
(* C22: N increments of one key by concurrent callers, from an absent key,  *)
(* return exactly the values 1..N, none twice, and leave N in the key; the  *)
(* first returns 1 and the next 2.                                          *)
(***************************************************************************)
OnlyIncrements ==
    \A ci \in Finished : Event(ci).op = "Increment" /\ Event(ci).err = Nil

C22_NoLostUpdate ==
    \A key \in CounterKeys :
       OnlyIncrements =>
          /\ {Event(ci).val : ci \in Finished} = 1..Cardinality(Finished)
          /\ Finished # {} => /\ key \in DOMAIN cache
                              /\ cache[key].val = JsonInteger(Cardinality(Finished))

C22_Witness ==
    /\ OnlyIncrements
    /\ Cardinality(Finished) = MaxCalls
    /\ \A c \in Callers : Len(api[c].log) >= 1

(***************************************************************************)
(* RedisCache.Remember (part_003 lines 216-245), command by command: the    *)
(* Get, the call of fn, and the Set with the population of dest.            *)
(***************************************************************************)
RememberKeys == {"users"}
RememberTTLs == {1, 2}

ErrCompute == "compute error"

\* The Go value the callers cache, and its zero value.
User(name) == [t |-> "User", name |-> name]
ZeroUser == User("")
ComputeVals == {User("x")}

\* json.Marshal of a User
MarshalUser(u) == [j |-> "object", f |-> [name |-> u.name]]

\* json.Unmarshal(data, &user): a text that is not an object is an error,
\* a field the object lacks keeps its zero value
UnmarshalUser(js) ==
    IF js.j # "object"
    THEN [err |-> ErrDecode, val |-> ZeroUser]
    ELSE [err |-> Nil,
          val |-> User(IF "name" \in DOMAIN js.f THEN js.f.name ELSE "")]

\* part_003 lines 81-93: Get(key, dest) with dest a *User
CacheGetUser(kv, key, ok) ==
    IF ~ok THEN [err |-> ErrBackend, val |-> ZeroUser]
    ELSE IF key \notin DOMAIN kv THEN [err |-> ErrCacheMiss, val |-> ZeroUser]
    ELSE UnmarshalUser(kv[key].val)

\* A Remember that computes whenever Get did not give a value.
RememberComputesOnAnyError(err) == err # Nil

\* lines 218-226: whether Remember goes on to call fn after Get returned err
RememberComputes(err) == err # Nil /\ err = ErrCacheMiss

\* Caller c returns from its call.
Return(c, op, val, err) ==
    [api EXCEPT ![c].pc = "idle",
                ![c].log = Append(@, ApiEv(op, api[c].key, api[c].ttl, val, err))]

\* A caller calls Remember(key, ttl, fn, &user)
ApiRemember(c) ==
    /\ api[c].pc = "idle"
    /\ touched < MaxCalls
    /\ touched' = touched + 1
    /\ \E key \in RememberKeys, ttl \in RememberTTLs :
          api' = [api EXCEPT ![c].pc = "get", ![c].key = key, ![c].ttl = ttl,
                             ![c].val = ZeroUser, ![c].computes = 0]
    /\ UNCHANGED <<configVars, storeVars, clientVars, webVars, janitor, now, nextId,
                   faults, cache>>

\* lines 218-226: err := r.Get(key, dest)
RememberGet(c) ==
    /\ api[c].pc = "get"
    /\ \E ok \in Answers :
          LET g == CacheGetUser(cache, api[c].key, ok) IN
          /\ api' = IF RememberComputes(g.err)
                    THEN [api EXCEPT ![c].pc = "compute"]
                    ELSE Return(c, "Remember", g.val, g.err)
          /\ faults' = faults + Injected(ok)
    /\ UNCHANGED <<configVars, storeVars, clientVars, webVars, janitor, now, nextId,
                   cache, touched>>

\* lines 228-232: value, err := fn()
RememberCompute(c) ==
    /\ api[c].pc = "compute"
    /\ \/ \E v \in ComputeVals :
             api' = [api EXCEPT ![c].pc = "set", ![c].val = v,
                                ![c].computes = @ + 1]
       \/ api' = [Return(c, "Remember", ZeroUser, ErrCompute)
                     EXCEPT ![c].computes = @ + 1]
    /\ UNCHANGED <<configVars, storeVars, clientVars, webVars, janitor, now, nextId,
                   faults, cache, touched>>

\* lines 234-244: r.Set(key, value, ttl), then dest is populated from the
\* marshalled value
RememberSet(c) ==
    /\ api[c].pc = "set"
    /\ \E ok \in Answers :
          LET data == MarshalUser(api[c].val)
              dest == UnmarshalUser(data)
          IN  /\ cache' = IF ok THEN CacheSet(cache, api[c].key, data, api[c].ttl, now)
                          ELSE cache
              /\ api' = IF ok THEN Return(c, "Remember", dest.val, dest.err)
                        ELSE Return(c, "Remember", ZeroUser, ErrBackend)
              /\ faults' = faults + Injected(ok)
    /\ UNCHANGED <<configVars, storeVars, clientVars, webVars, janitor, now, nextId,
                   touched>>

\* The key is cold, holds a user, or holds a text that is not a user.
InitRemember ==
    /\ backend = "redis"
    /\ contextKey = "session"
    /\ maxAge = MaxAge24h
    /\ now = 0
    /\ heap = << >>
    /\ mem = << >>
    /\ rds = << >>
    /\ nextId = 0
    /\ faults = 0
    /\ lastOp = NoOp
    /\ pending = NoSession
    /\ rq = NoTasks
    /\ tasks = {}
    /\ jar = {}
    /\ started = 0
    /\ flashes = << >>
    /\ api = NoApi
    /\ janitor = NoJanitor
    /\ cacheConfig = NoCacheConfig
    /\ creq = CacheIdle
    /\ cprev = CacheIdle
    /\ touched = 0
    /\ \/ cache = << >>
       \/ \E key \in RememberKeys, js \in {MarshalUser(User("z")), JsonNumber} :
             cache = CacheSet(<< >>, key, js, 1, 0)

NextRemember ==
    \/ \E c \in Callers : ApiRemember(c)
    \/ \E c \in Callers : RememberGet(c)
    \/ \E c \in Callers : RememberCompute(c)
    \/ \E c \in Callers : RememberSet(c)
    \/ Tick

SpecRemember == InitRemember /\ [][NextRemember]_vars

\* Caller c returns from its call in this step, with event ev.
Returns(c) == api[c].pc # "idle" /\ api'[c].pc = "idle"
Answer(c) == api'[c].log[Len(api'[c].log)]

(***************************************************************************)
(* C23: Remember(key, ttl, fn, dest). On a hit it returns the cached value  *)
(* and does not call fn. On a miss it calls fn exactly once, stores the     *)
(* result under key with ttl and returns it. If fn fails, or if Get fails   *)
(* with an error other than the miss, nothing is written and that error is  *)
(* returned.                                                                *)
(***************************************************************************)
C23_Call(c) ==
    LET key == api[c].key IN
    /\ api'[c].computes <= 1
    /\ (api[c].pc = "get" /\ api'[c].pc = "compute") =>
          \* fn is called only after a miss that the server answered
          key \notin DOMAIN cache /\ faults' = faults
    /\ (api[c].pc = "get" /\ Returns(c) /\ Answer(c).err = Nil) =>
          /\ key \in DOMAIN cache
          /\ Answer(c).val = UnmarshalUser(cache[key].val).val
          /\ api'[c].computes = 0
          /\ cache' = cache
    /\ (api[c].pc = "get" /\ Returns(c) /\ Answer(c).err # Nil) =>
          /\ Answer(c).err \in {ErrBackend, ErrDecode}
          /\ api'[c].computes = 0
          /\ cache' = cache
    /\ (api[c].pc = "compute" /\ Returns(c)) =>
          /\ Answer(c).err = ErrCompute
          /\ api'[c].computes = 1
          /\ cache' = cache
    /\ (api[c].pc = "set" /\ Returns(c) /\ Answer(c).err = Nil) =>
          /\ api'[c].computes = 1
          /\ key \in DOMAIN cache'
          /\ cache'[key] = [val |-> MarshalUser(api[c].val), exp |-> now + api[c].ttl]
          /\ Answer(c).val = api[c].val

C23_Remember == [][\A c \in Callers : C23_Call(c)]_vars

\* Some caller has had a hit, some a miss that it filled, some a failure of
\* fn and some a Get that failed.
C23_Witness ==
    /\ \E ci \in Finished : Event(ci).err = Nil /\ Event(ci).val = User("z")
    /\ \E ci \in Finished : Event(ci).err = Nil /\ Event(ci).val \in ComputeVals
    /\ \E ci \in Finished : Event(ci).err = ErrCompute

(***************************************************************************)
(* C24: callers that call Remember concurrently on the same cold key call   *)
(* fn once in total: no two callers are in a call on the same key having    *)
(* each called fn.                                                          *)
(***************************************************************************)
C24_ComputedOnce ==
    \A c1, c2 \in Callers :
       (/\ c1 # c2
        /\ api[c1].pc # "idle" /\ api[c2].pc # "idle"
        /\ api[c1].key = api[c2].key) =>
           api[c1].computes + api[c2].computes <= 1

(***************************************************************************)
(* TaggedCache (part_003 lines 248-309): Set and Flush, command by command. *)
(* The index of a tag is a Redis set under the key "tag:" + tag that holds  *)
(* the keys set through a handle of that tag.                               *)
(***************************************************************************)
TagNames == {"T", "U"}
Handles == {<<"T">>, <<"T", "U">>}
TagKeys == {"k1", "k2"}
TagTTLs == {1, 2}

ErrWrongType == "wrong type"

\* line 267: tagKey := t.prefix + tag
TagKey(tag) == "tag:" \o tag

JsonSet(members) == [j |-> "set", f |-> members]

\* The server's SADD key member: an absent key becomes a set without expiry
SAdd(kv, key, member) ==
    IF key \notin DOMAIN kv
    THEN [kv |-> [k \in DOMAIN kv \cup {key} |->
                     IF k = key THEN [val |-> JsonSet({member}), exp |-> NoExpiry]
                     ELSE kv[k]],
          err |-> Nil]
    ELSE IF kv[key].val.j # "set" THEN [kv |-> kv, err |-> ErrWrongType]
    ELSE [kv |-> [kv EXCEPT ![key].val = JsonSet(@.f \cup {member})], err |-> Nil]

\* The server's EXPIRE key ttl, with ttl > 0: a key that exists is dropped
\* ttl from now, whatever expiry it had
Expire(kv, key, ttl, t) ==
    IF key \in DOMAIN kv THEN [kv EXCEPT ![key].exp = t + ttl] ELSE kv

\* A server on which SMEMBERS of a key that does not exist is an error.
SMembersOfMissingFails(kv, key) ==
    IF key \notin DOMAIN kv THEN [keys |-> {}, err |-> ErrCacheMiss]
    ELSE IF kv[key].val.j # "set" THEN [keys |-> {}, err |-> ErrWrongType]
    ELSE [keys |-> kv[key].val.f, err |-> Nil]

\* The server's SMEMBERS key: an absent key is the empty set
SMembers(kv, key) ==
    IF key \notin DOMAIN kv THEN [keys |-> {}, err |-> Nil]
    ELSE IF kv[key].val.j # "set" THEN [keys |-> {}, err |-> ErrWrongType]
    ELSE [keys |-> kv[key].val.f, err |-> Nil]

\* The server's DEL key...: keys that do not exist are ignored
Del(kv, keys) == [k \in DOMAIN kv \ keys |-> kv[k]]

\* The handle goes on to its next tag, or the call returns nil.
NextTag(c, op, pc) ==
    IF api[c].i < Len(api[c].tags)
    THEN [api EXCEPT ![c].pc = pc, ![c].i = @ + 1]
    ELSE Return(c, op, api[c].tags, Nil)

\* lines 264-269: Tags(tags...).Set(key, value, ttl), up to t.cache.Set
TaggedSet(c) ==
    /\ api[c].pc = "idle"
    /\ touched < MaxCalls
    /\ touched' = touched + 1
    /\ \E tags \in Handles, key \in TagKeys, ttl \in TagTTLs, ok \in Answers :
          LET call == [api EXCEPT ![c].key = key, ![c].ttl = ttl, ![c].t = now,
                                  ![c].tags = tags, ![c].i = 1, ![c].keys = {}]
          IN  /\ cache' = IF ok THEN CacheSet(cache, key, JsonUser, ttl, now) ELSE cache
              /\ api' = IF ok THEN [call EXCEPT ![c].pc = "sadd"]
                        ELSE [call EXCEPT ![c].log =
                                 Append(@, ApiEv("TaggedSet", key, ttl, tags, ErrBackend))]
              /\ faults' = faults + Injected(ok)
    /\ UNCHANGED <<configVars, storeVars, clientVars, webVars, janitor, now, nextId>>

\* line 274: t.cache.client.SAdd(ctx, tagKey, key), the result is dropped
TaggedSAdd(c) ==
    /\ api[c].pc = "sadd"
    /\ \E ok \in Answers :
          /\ cache' = IF ok THEN SAdd(cache, TagKey(api[c].tags[api[c].i]), api[c].key).kv
                      ELSE cache
          /\ faults' = faults + Injected(ok)
    /\ api' = IF api[c].ttl > 0 THEN [api EXCEPT ![c].pc = "expire"]
              ELSE NextTag(c, "TaggedSet", "sadd")
    /\ UNCHANGED <<configVars, storeVars, clientVars, webVars, janitor, now, nextId,
                   touched>>

\* lines 276-278: t.cache.client.Expire(ctx, tagKey, ttl), the result is
\* dropped
TaggedExpire(c) ==
    /\ api[c].pc = "expire"
    /\ \E ok \in Answers :
          /\ cache' = IF ok THEN Expire(cache, TagKey(api[c].tags[api[c].i]),
                                        api[c].ttl, now)
                      ELSE cache
          /\ faults' = faults + Injected(ok)
    /\ api' = NextTag(c, "TaggedSet", "sadd")
    /\ UNCHANGED <<configVars, storeVars, clientVars, webVars, janitor, now, nextId,
                   touched>>

\* line 285: Tags(tags...).Flush()
TaggedFlush(c) ==
    /\ api[c].pc = "idle"
    /\ touched < MaxCalls
    /\ touched' = touched + 1
    /\ \E tags \in Handles :
          api' = [api EXCEPT ![c].pc = "smembers", ![c].key = "", ![c].ttl = 0,
                             ![c].t = now,
                             ![c].tags = tags, ![c].i = 1, ![c].keys = {}]
    /\ UNCHANGED <<configVars, storeVars, clientVars, webVars, janitor, now, nextId,
                   faults, cache>>

\* lines 289-293: keys, err := t.cache.client.SMembers(ctx, tagKey).Result()
FlushMembers(c) ==
    /\ api[c].pc = "smembers"
    /\ \E ok \in Answers :
          LET m == IF ok THEN SMembers(cache, TagKey(api[c].tags[api[c].i]))
                   ELSE [keys |-> {}, err |-> ErrBackend]
          IN  /\ api' = IF m.err # Nil THEN Return(c, "Flush", api[c].tags, m.err)
                        ELSE [api EXCEPT ![c].keys = m.keys,
                                         ![c].pc = IF m.keys # {} THEN "delkeys"
                                                   ELSE "deltag"]
              /\ faults' = faults + Injected(ok)
    /\ UNCHANGED <<configVars, storeVars, clientVars, webVars, janitor, now, nextId,
                   cache, touched>>

\* lines 296-302: t.cache.client.Del(ctx, fullKeys...), the result is dropped
FlushKeys(c) ==
    /\ api[c].pc = "delkeys"
    /\ \E ok \in Answers :
          /\ cache' = IF ok THEN Del(cache, api[c].keys) ELSE cache
          /\ faults' = faults + Injected(ok)
    /\ api' = [api EXCEPT ![c].pc = "deltag"]
    /\ UNCHANGED <<configVars, storeVars, clientVars, webVars, janitor, now, nextId,
                   touched>>

\* line 305: t.cache.client.Del(ctx, tagKey), the result is dropped
FlushTag(c) ==
    /\ api[c].pc = "deltag"
    /\ \E ok \in Answers :
          /\ cache' = IF ok THEN Del(cache, {TagKey(api[c].tags[api[c].i])}) ELSE cache
          /\ faults' = faults + Injected(ok)
    /\ api' = NextTag(c, "Flush", "smembers")
    /\ UNCHANGED <<configVars, storeVars, clientVars, webVars, janitor, now, nextId,
                   touched>>

\* part_003 lines 140-143: Delete(key)
ApiDelete(c) ==
    /\ api[c].pc = "idle"
    /\ touched < MaxCalls
    /\ touched' = touched + 1
    /\ \E key \in TagKeys, ok \in Answers :
          /\ cache' = IF ok THEN Del(cache, {key}) ELSE cache
          /\ api' = [api EXCEPT ![c].log =
                        Append(@, ApiEv("Delete", key, 0, << >>,
                                        IF ok THEN Nil ELSE ErrBackend))]
          /\ faults' = faults + Injected(ok)
    /\ UNCHANGED <<configVars, storeVars, clientVars, webVars, janitor, now, nextId>>

\* The tagged handles are used by one caller, call after call.
TagCaller == CHOOSE c \in Callers : \A d \in Callers : c <= d

NextTags ==
    \/ TaggedSet(TagCaller)
    \/ TaggedSAdd(TagCaller)
    \/ TaggedExpire(TagCaller)
    \/ TaggedFlush(TagCaller)
    \/ FlushMembers(TagCaller)
    \/ FlushKeys(TagCaller)
    \/ FlushTag(TagCaller)
    \/ ApiDelete(TagCaller)
    \/ Tick

\* The server may fail a command.
SpecTags == InitApi /\ [][NextTags]_vars

\* The server answers every command.
InitAnswered ==
    /\ backend = "redis"
    /\ contextKey = "session"
    /\ maxAge = MaxAge24h
    /\ now = 0
    /\ heap = << >>
    /\ mem = << >>
    /\ rds = << >>
    /\ nextId = 0
    /\ faults = MaxFaults
    /\ lastOp = NoOp
    /\ pending = NoSession
    /\ rq = NoTasks
    /\ tasks = {}
    /\ jar = {}
    /\ started = 0
    /\ flashes = << >>
    /\ api = NoApi
    /\ janitor = NoJanitor
    /\ NoCache

SpecTagsAnswered == InitAnswered /\ [][NextTags]_vars

\* The elements of a sequence of tags.
Range(tags) == {tags[n] : n \in DOMAIN tags}

(***************************************************************************)
(* C25: after Tags(tags...).Set(key, value, ttl) has returned nil the value *)
(* is stored under key and key is in the index set of every tag of the      *)
(* handle; with ttl > 0 each of these index entries expires ttl from the    *)
(* call. Stated of the calls during which no time passes, so that nothing   *)
(* the call wrote has expired when it returns.                              *)
(***************************************************************************)
C25_Call(c) ==
    (/\ Returns(c) /\ Answer(c).op = "TaggedSet" /\ Answer(c).err = Nil
     /\ now = api[c].t) =>
       /\ api[c].key \in DOMAIN cache'
       /\ cache'[api[c].key].val = JsonUser
       /\ \A tag \in Range(api[c].tags) :
             /\ TagKey(tag) \in DOMAIN cache'
             /\ cache'[TagKey(tag)].val.j = "set"
             /\ api[c].key \in cache'[TagKey(tag)].val.f
             /\ api[c].ttl > 0 => cache'[TagKey(tag)].exp = now + api[c].ttl

C25_Indexed == [][C25_Call(TagCaller)]_vars

(***************************************************************************)
(* C26: after Flush() has returned, a value that was set under a tag of the *)
(* handle is a miss, the keys the flush found in the index sets are misses  *)
(* and the index entries of the handle's tags do not exist.                 *)
(***************************************************************************)
\* The call at position n of caller c set key under a tag of tags and no
\* later call wrote or deleted key.
SetUnder(c, n, key, tags) ==
    LET ev == api'[c].log[n] IN
    /\ ev.op = "TaggedSet" /\ ev.err = Nil /\ ev.key = key
    /\ Range(ev.val) \cap Range(tags) # {}
    /\ \A m \in (n + 1)..Len(api'[c].log) : api'[c].log[m].key # key

C26_Call(c) ==
    (Returns(c) /\ Answer(c).op = "Flush" /\ Answer(c).err = Nil) =>
       /\ \A tag \in Range(api[c].tags) : TagKey(tag) \notin DOMAIN cache'
       /\ \A key \in api[c].keys : key \notin DOMAIN cache'
       /\ \A key \in TagKeys, n \in 1..Len(api'[c].log) :
             SetUnder(c, n, key, api[c].tags) => key \notin DOMAIN cache'

C26_Flushed == [][C26_Call(TagCaller)]_vars

(***************************************************************************)
(* C27: Flush() is idempotent and tolerates stale index entries. A Flush    *)
(* that follows a Flush of the same handle deletes nothing and returns no   *)
(* error, and a Flush whose index names keys that hold no value any more    *)
(* returns no error.                                                        *)
(***************************************************************************)
\* Caller c is in a Flush that follows a Flush of the same handle.
SecondFlush(c) ==
    /\ api[c].pc \in {"smembers", "delkeys", "deltag"}
    /\ Len(api[c].log) > 0
    /\ api[c].log[Len(api[c].log)].op = "Flush"
    /\ api[c].log[Len(api[c].log)].err = Nil
    /\ api[c].log[Len(api[c].log)].val = api[c].tags

\* Caller c is in a Flush that found a key in the index that holds no value.
StaleFlush(c) ==
    /\ api[c].pc \in {"delkeys", "deltag"}
    /\ \E key \in api[c].keys : key \notin DOMAIN cache

C27_Call(c) ==
    /\ (SecondFlush(c) /\ api'[c] # api[c]) =>
          /\ cache' = cache
          /\ api'[c].pc # "delkeys"
          /\ Returns(c) => Answer(c).err = Nil
    /\ (StaleFlush(c) /\ api'[c] # api[c]) =>
          /\ api'[c].pc \in {"deltag", "smembers", "idle"}
          /\ Returns(c) => Answer(c).err = Nil

C27_Idempotent == [][C27_Call(TagCaller)]_vars

\* A value was set under a tag, the handle was flushed and flushed again.
C27_Witness ==
    LET log == api[TagCaller].log IN
    /\ Len(log) = 3
    /\ log[1].op = "TaggedSet" /\ log[1].err = Nil
    /\ log[2].op = "Flush" /\ log[2].err = Nil
    /\ log[3].op = "Flush" /\ log[3].err = Nil
    /\ log[2].val = log[3].val
    /\ Range(log[1].val) \cap Range(log[2].val) # {}

(***************************************************************************)
(* The cache middleware in front of a Redis server that may fail a command. *)
(***************************************************************************)
InitOutage ==
    /\ backend = "redis"
    /\ contextKey = "session"
    /\ maxAge = MaxAge24h
    /\ now = 0
    /\ heap = << >>
    /\ mem = << >>
    /\ rds = << >>
    /\ nextId = 0
    /\ faults = 0
    /\ lastOp = NoOp
    /\ pending = NoSession
    /\ rq = NoTasks
    /\ tasks = {}
    /\ jar = {}
    /\ started = 0
    /\ flashes = << >>
    /\ api = NoCallers
    /\ janitor = NoJanitor
    /\ cache = << >>
    /\ cacheConfig = DefaultCacheConfig
    /\ creq = CacheIdle
    /\ cprev = CacheIdle
    /\ touched = 0

NextOutage ==
    \/ CacheBegin
    \/ CachePassThrough
    \/ CacheLookup
    \/ CacheMiss
    \/ AppSet
    \/ Tick

SpecOutage == InitOutage /\ [][NextOutage]_vars

(***************************************************************************)
(* C28: when the Get of the cache middleware fails with any error (the      *)
(* miss, a backend failure, a text that does not decode) the middleware     *)
(* calls the wrapped handler once and returns the handler's response and    *)
(* result; a failure of the cache Set that follows is not returned.         *)
(***************************************************************************)
C28_NeverHits ==
    /\ (creq.gets = 1 /\ creq.gerr # Nil) =>
          /\ ~creq.hit
          /\ creq.pc \in {"miss", "done"}
    /\ (creq.pc = "done" /\ creq.gets = 1 /\ creq.gerr # Nil) =>
          /\ creq.calls = 1
          /\ creq.resp = creq.hresp
          /\ creq.result = creq.herr

\* The backend failed the Get and the handler's response was returned.
C28_Witness ==
    /\ creq.pc = "done"
    /\ creq.gerr = ErrBackend
    /\ creq.calls = 1
    /\ creq.herr = Nil
    /\ creq.resp = creq.hresp

(***************************************************************************)
(* The background sweep of the MemoryStore (session/store.go lines 95-107   *)
(* and 174-192): NewMemoryStore starts the goroutine startCleanup when the  *)
(* interval is positive, Close closes stopCh.                               *)
(***************************************************************************)
Intervals == {0, 1}

\* lines 95-107: NewMemoryStore(cleanupInterval)
NewJanitor(interval) ==
    [NoJanitor EXCEPT !.interval = interval,
                      !.pc = IF interval > 0 THEN "select" ELSE "none"]

\* line 175: the ticker puts a tick in ticker.C, which holds at most one
TickerFires ==
    /\ janitor.pc \in {"select", "cleanup"}
    /\ ~janitor.tick
    /\ janitor' = [janitor EXCEPT !.tick = TRUE]
    /\ UNCHANGED <<configVars, storeVars, clientVars, cacheVars, webVars, api, now,
                   nextId, faults>>

\* lines 178-180: the select takes case <-ticker.C; when stopCh is closed
\* as well the runtime picks either case
JanitorWake ==
    /\ janitor.pc = "select"
    /\ janitor.tick
    /\ janitor' = [janitor EXCEPT !.pc = "cleanup", !.tick = FALSE]
    /\ UNCHANGED <<configVars, storeVars, clientVars, cacheVars, webVars, api, now,
                   nextId, faults>>

\* line 181: m.Cleanup()
JanitorCleanup ==
    /\ janitor.pc = "cleanup"
    /\ LET res == MemoryCleanup(St, now) IN
          heap' = Kept(res.st) /\ mem' = res.st.mem /\ rds' = res.st.rds
    /\ janitor' = [janitor EXCEPT !.pc = "select"]
    /\ UNCHANGED <<configVars, clientVars, cacheVars, webVars, api, now, nextId, faults>>

\* lines 182-183: the select takes case <-m.stopCh and the goroutine returns
JanitorStop ==
    /\ janitor.pc = "select"
    /\ janitor.closed
    /\ janitor' = [janitor EXCEPT !.pc = "exited"]
    /\ UNCHANGED <<configVars, storeVars, clientVars, cacheVars, webVars, api, now,
                   nextId, faults>>

\* lines 189-192: Close() closes stopCh and returns nil. The application
\* closes its store once (defer store.Close()).
StoreClose ==
    /\ ~janitor.closed
    /\ janitor' = [janitor EXCEPT !.closed = TRUE]
    /\ lastOp' = Op("Close", EmptyStr, Nil, NoRef, NoSession)
    /\ UNCHANGED <<configVars, storeVars, cacheVars, webVars, api, now, nextId, faults,
                   pending>>

InitJanitor ==
    /\ backend = "memory"
    /\ contextKey = "session"
    /\ maxAge = MaxAge24h
    /\ now = 0
    /\ heap = << >>
    /\ mem = << >>
    /\ rds = << >>
    /\ nextId = 0
    /\ faults = MaxFaults
    /\ lastOp = NoOp
    /\ pending = NoSession
    /\ rq = NoTasks
    /\ tasks = {}
    /\ jar = {}
    /\ started = 0
    /\ flashes = << >>
    /\ api = NoCallers
    /\ \E interval \in Intervals : janitor = NewJanitor(interval)
    /\ NoCache

NextJanitor ==
    \/ ClientNew
    \/ ClientSet
    \/ ClientGet
    \/ Tick
    \/ TickerFires
    \/ JanitorWake
    \/ JanitorCleanup
    \/ JanitorStop
    \/ StoreClose

SpecJanitor == InitJanitor /\ [][NextJanitor]_vars

\* The ticker keeps firing while the goroutine runs, the goroutine is
\* scheduled, and a select with several ready cases picks among them at
\* random: the case of stopCh is not passed over for ever.
SpecJanitorFair ==
    /\ SpecJanitor
    /\ WF_vars(TickerFires)
    /\ WF_vars(JanitorWake)
    /\ WF_vars(JanitorCleanup)
    /\ SF_vars(JanitorStop)

\* After Close the goroutine, if there is one, ends.
JanitorEnds == janitor.closed ~> janitor.pc \in {"none", "exited"}

(***************************************************************************)
(* C30: the background sweep of the in-process store stops without leaking: *)
(* once Close() has returned the goroutine performs no sweep (and it ends); *)
(* with a cleanup interval that is not positive there is no goroutine and   *)
(* Close() succeeds.                                                        *)
(***************************************************************************)
C30_Step ==
    /\ janitor.closed => ~(janitor.pc = "cleanup" /\ janitor'.pc = "select")
    /\ janitor.interval <= 0 => janitor.pc = "none"

C30_NoSweepAfterClose == [][C30_Step]_vars

(***************************************************************************)
(* C31: on the in-process store a record whose expiry has passed is         *)
(* eventually removed from the table unless the store is closed, however    *)
(* the store was constructed, a cleanup interval of 0 included.             *)
(***************************************************************************)
ExpiredRecord(id) ==
    /\ id \in DOMAIN mem
    /\ IsExpired(heap[mem[id]], now)
    /\ ~janitor.closed

C31_EventuallySwept ==
    \A id \in 1..MaxIds :
       ExpiredRecord(id) ~> (id \notin DOMAIN mem \/ janitor.closed)


(***************************************************************************)
(* Concurrent requests on one session. The client already holds the cookie *)
(* of session 1, which a server-side store keeps; two requests that carry   *)
(* it are served at the same time, each by its own goroutine.               *)
(***************************************************************************)
InitShared ==
    /\ backend \in ServerBackends
    /\ contextKey = "session"
    /\ maxAge = MiddlewareMaxAge(1)
    /\ now = 0
    /\ IF backend = "memory"
       THEN /\ heap = (1 :> NewSession(1, maxAge, 0))
            /\ mem = (1 :> 1)
            /\ rds = << >>
       ELSE /\ heap = << >>
            /\ mem = << >>
            /\ rds = (1 :> [val |-> Marshal(NewSession(1, maxAge, 0)), exp |-> maxAge])
    /\ nextId = 1
    /\ faults = MaxFaults
    /\ lastOp = NoOp
    /\ pending = NoSession
    /\ rq = NoTasks
    /\ tasks = Tasks
    /\ jar = {1}
    /\ started = 0
    /\ api = NoCallers
    /\ janitor = NoJanitor
    /\ flashes = << >>
    /\ NoCache

\* The record a task's next statement writes without holding the store's
\* mutex: Session.Set in the handler (s.Data[key] = value, s.UpdatedAt),
\* sess.ExpiresAt = ... in the middleware after the handler.
UnlockedWrites(task) ==
    IF task.pc = "handler" /\ task.ops < MaxOps /\ GetSession(task.ctx).err = Nil
    THEN {GetSession(task.ctx).ref}
    ELSE IF task.pc = "persist" /\ contextKey \in DOMAIN task.ctx
    THEN {task.ctx[contextKey]}
    ELSE {}

\* The record a task's next statement reads or writes with the mutex held:
\* MemoryStore.Get reads session.ExpiresAt under RLock, MemoryStore.Touch
\* writes session.UpdatedAt under Lock.
LockedAccesses(task) ==
    IF task.pc = "resolve" /\ task.cookie.kind = "id" /\ task.cookie.id \in DOMAIN mem
    THEN {mem[task.cookie.id]}
    ELSE IF task.pc = "touch" /\ heap[task.sess].id \in DOMAIN mem
    THEN {mem[heap[task.sess].id]}
    ELSE {}

\* Two goroutines write one Go map with nothing ordering them: the runtime
\* may see it and end the process (fatal error: concurrent map writes), or
\* not see it, and then the writes land one after the other (HandlerSet).
ConcurrentMapWrites(r1, r2) ==
    /\ backend = "memory"
    /\ r1 # r2
    /\ rq[r1].pc = "handler" /\ rq[r1].ops < MaxOps
    /\ rq[r2].pc = "handler" /\ rq[r2].ops < MaxOps
    /\ GetSession(rq[r1].ctx).err = Nil
    /\ GetSession(rq[r2].ctx) = GetSession(rq[r1].ctx)
    /\ Commit([St EXCEPT !.mem = << >>],
              [r \in Tasks |-> [Idle EXCEPT !.pc = "crashed", !.log = rq[r].log]])
    /\ UNCHANGED <<configVars, cacheVars, clientVars, now, nextId, faults, tasks, flashes, api, janitor, jar, started>>

NextShared ==
    \/ \E r \in tasks : Start(r)
    \/ \E r \in tasks : Resolve(r)
    \/ \E r \in tasks : Create(r)
    \/ \E r \in tasks : Touch(r)
    \/ \E r \in tasks : TouchGet(r)
    \/ \E r \in tasks : TouchSet(r)
    \/ \E r \in tasks : HandlerSet(r)
    \/ \E r \in tasks : HandlerDestroy(r)
    \/ \E r \in tasks : HandlerReturn(r)
    \/ \E r \in tasks : Persist(r)
    \/ \E r1, r2 \in tasks : ConcurrentMapWrites(r1, r2)

SpecShared == InitShared /\ [][NextShared]_vars

(* C32: on the in-process store no request is about to write a stored record (its data, its expiry) without the store's lock while another request is about to read or write the same record. *)
Racing(r1, r2) ==
    /\ r1 # r2
    /\ UnlockedWrites(rq[r1]) \cap (UnlockedWrites(rq[r2]) \cup LockedAccesses(rq[r2])) # {}

C32_NoRace ==
    backend = "memory" => \A r1 \in tasks, r2 \in tasks : ~Racing(r1, r2)

(* C33: a handler's mutation of its session handle leaves what Store.Get returns for every stored id unchanged, on the in-process and on the networked store: the change reaches the store only with the save after the handler. *)
StoredData(id) ==
    IF backend = "memory" THEN heap[mem[id]].data ELSE Unmarshal(rds[id].val).data

StoredDataAfter(id) ==
    IF backend = "memory" THEN heap'[mem'[id]].data ELSE Unmarshal(rds'[id].val).data

HandlerMutates(r) ==
    /\ rq[r].pc = "handler"
    /\ rq'[r].pc = "handler"
    /\ rq'[r].ops = rq[r].ops + 1

C33_WorkingCopy ==
    [][\A r \in tasks :
          HandlerMutates(r) =>
             \A id \in Records :
                id \in RecordsAfter /\ StoredDataAfter(id) = StoredData(id)]_vars

\* The same two requests on the networked store.
InitNetworked ==
    /\ backend = "redis"
    /\ InitShared

NextNetworked ==
    \/ \E r \in tasks : Start(r)
    \/ \E r \in tasks : Resolve(r)
    \/ \E r \in tasks : Create(r)
    \/ \E r \in tasks : TouchGet(r)
    \/ \E r \in tasks : TouchSet(r)
    \/ \E r \in tasks : HandlerSet(r)
    \/ \E r \in tasks : HandlerReturn(r)
    \/ \E r \in tasks : Persist(r)

SpecNetworked == InitNetworked /\ [][NextNetworked]_vars

(* C34: on the networked store, when the save after a request's handler succeeds, the record under the session's id is exactly that request's working copy, whatever another request on the same id had saved before: the last save wins and nothing of the earlier save is merged in. *)
PersistSaves(r) ==
    /\ rq[r].pc = "persist"
    /\ rq'[r].pc = "done"
    /\ contextKey \in DOMAIN rq[r].ctx
    /\ Len(rq'[r].log) = Len(rq[r].log) + 2
    /\ rq'[r].log[Len(rq[r].log) + 1].e = "Set"
    /\ rq'[r].log[Len(rq[r].log) + 1].err = Nil

WorkingCopy(r) == [heap[rq[r].ctx[contextKey]] EXCEPT !.expiresAt = now + maxAge]

C34_LastSaveWins ==
    [][\A r \in tasks :
          (backend = "redis" /\ PersistSaves(r)) =>
             /\ WorkingCopy(r).id \in DOMAIN rds'
             /\ rds'[WorkingCopy(r).id].val = Marshal(WorkingCopy(r))]_vars

SavedOk(r, id) ==
    \E i \in At(rq[r].log, "Set") : rq[r].log[i].id = id /\ rq[r].log[i].err = Nil

\* Both requests resolved session 1 and saved it; one had set a key, the
\* other, which saved last, had not, and the record has no key.
C34_Witness ==
    /\ backend = "redis"
    /\ \A r \in Tasks : rq[r].pc = "done" /\ Loaded(r) /\ SavedOk(r, 1)
    /\ \E r \in Tasks : rq[r].ops = 1
    /\ 1 \in DOMAIN rds
    /\ rds[1].val.data = << >>

(* C35: for every Flash(k, v) call, at most one GetFlash(k) call on that session returns found before the next Flash(k, _), also when the calls are made by requests served at the same time. *)
SameEntry(i, j) ==
    flashes[i].id = flashes[j].id /\ flashes[i].key = flashes[j].key

FoundReads(i) ==
    {j \in DOMAIN flashes :
        /\ j > i
        /\ SameEntry(i, j)
        /\ flashes[j].e = "GetFlash"
        /\ flashes[j].ok
        /\ \A m \in DOMAIN flashes :
              (i < m /\ m < j /\ SameEntry(i, m)) => flashes[m].e # "Flash"}

C35_OneReadPerWrite ==
    \A i \in DOMAIN flashes :
       flashes[i].e = "Flash" => Cardinality(FoundReads(i)) <= 1

(* C36: whatever context key the session middleware is configured with, GetSession called while the handler runs returns the session the middleware resolved or created for the request, with no error. *)
C36_GetSessionResolves ==
    \A r \in tasks :
       rq[r].pc = "handler" =>
          GetSession(rq[r].ctx) = [ref |-> rq[r].sess, err |-> Nil]

(* C37: after any sequence of Tags(...).Set calls, with any ttl values and any time elapsed, every key whose value is still live is in the index set of each tag of the handle that stored the value. *)
OnlySets(c) ==
    \A n \in 1..Len(api[c].log) :
       api[c].log[n].op = "TaggedSet" /\ api[c].log[n].err = Nil

\* The call at position n of caller c stored the value that key holds.
StoredBy(c, n) ==
    /\ api[c].log[n].key \in DOMAIN cache
    /\ \A m \in (n + 1)..Len(api[c].log) : api[c].log[m].key # api[c].log[n].key

C37_IndexCovers ==
    (api[TagCaller].pc = "idle" /\ OnlySets(TagCaller)) =>
       \A n \in 1..Len(api[TagCaller].log) :
          StoredBy(TagCaller, n) =>
             \A tag \in Range(api[TagCaller].log[n].val) :
                /\ TagKey(tag) \in DOMAIN cache
                /\ api[TagCaller].log[n].key \in cache[TagKey(tag)].val.f

(***************************************************************************)
(* Two callers use tagged handles of one cache at the same time: the        *)
(* commands of a Set and of a Flush reach the server in any order.          *)
(***************************************************************************)
NextTagsShared ==
    \/ \E c \in Callers : TaggedSet(c)
    \/ \E c \in Callers : TaggedSAdd(c)
    \/ \E c \in Callers : TaggedExpire(c)
    \/ \E c \in Callers : TaggedFlush(c)
    \/ \E c \in Callers : FlushMembers(c)
    \/ \E c \in Callers : FlushKeys(c)
    \/ \E c \in Callers : FlushTag(c)

SpecTagsShared == InitAnswered /\ [][NextTagsShared]_vars

(* C38: when one caller's Tags(...).Set(key, ...) and another caller's Flush() on a handle sharing a tag T have both returned, either key holds no value or key is in T's index set, however the two calls interleaved. *)
\* Caller c made one call, op, which returned nil.
MadeOnly(c, op) ==
    /\ api[c].pc = "idle"
    /\ Len(api[c].log) = 1
    /\ api[c].log[1].op = op
    /\ api[c].log[1].err = Nil

C38_SetAndFlush ==
    \A c \in Callers, d \in Callers :
       (c # d /\ MadeOnly(c, "TaggedSet") /\ MadeOnly(d, "Flush")) =>
          \A tag \in Range(api[c].log[1].val) \cap Range(api[d].log[1].val) :
             \/ api[c].log[1].key \notin DOMAIN cache
             \/ /\ TagKey(tag) \in DOMAIN cache
                /\ api[c].log[1].key \in cache[TagKey(tag)].val.f

(* C39: on the networked store the write that ends Touch(id) leaves the key/value payload stored under every id as it was, also when another request saved the session between the two commands of the Touch. *)
TouchWrites(r) == rq[r].pc = "touchSet" /\ rq'[r].pc = "handler"

C39_TouchKeepsPayload ==
    [][\A r \in tasks :
          TouchWrites(r) =>
             \A id \in DOMAIN rds :
                id \in DOMAIN rds' /\ rds'[id].val.data = rds[id].val.data]_vars

(* C40: once a request's DestroySession has deleted a session from a server-side store, no step of another request, whether a save or a touch that was in flight, puts a record under that id back in the store. *)
Destroyed(r) ==
    {rq[r].log[i].id :
        i \in {j \in DOMAIN rq[r].log :
                  rq[r].log[j].e = "Destroy" /\ rq[r].log[j].err = Nil}}

C40_DeletionPermanent ==
    [][\A r \in tasks :
          \A id \in Destroyed(r) :
             (~HasRecord(id) /\ rq'[r] = rq[r]) => id \notin RecordsAfter]_vars

====
